---------------------------- MODULE Spec2Model ----------------------------
(***************************************************************************)
(* A model of webscrapbook/util/fs.py: the virtual filesystem that treats  *)
(* a directory tree and (nested) ZIP archives as one addressable space.    *)
(*                                                                         *)
(* Strings are sequences of one-character strings, so that prefixes,       *)
(* splitting and joining are computed as the code computes them.           *)
(* An archive file is a record [fp, dir]: fp is the region of the local    *)
(* entries (one cell for an entry's local header, one cell per data byte), *)
(* dir is the central directory (a sequence of ZipInfo records).           *)
(***************************************************************************)
EXTENDS Integers, Sequences, FiniteSets, TLC

VARIABLES disk, pre, calls

vars == <<disk, pre, calls>>

(***************************************************************************)
(* Bounds of the model.                                                    *)
(***************************************************************************)
\* longest entry name / subpath of the classification specification
ClassifyMaxLen == 3
\* most entries of an archive of the classification specification
ClassifyMaxEntries == 2
\* most entries of an archive of the member-removal specification
SurgeryMaxEntries == 3
\* largest relocation buffer of the member-removal specification
SurgeryMaxBuffer == 3
\* most entries of an archive on which an operation is called
MaxEntries == 3

(***************************************************************************)
(* Strings.                                                                *)
(***************************************************************************)
SLASH == "/"

\* all strings over the alphabet cs of length lo..hi
StringsOver(cs, lo, hi) == UNION {[1..n -> cs] : n \in lo..hi}

\* str.startswith(prefix)
StartsWith(s, prefix) ==
    /\ Len(prefix) <= Len(s)
    /\ SubSeq(s, 1, Len(prefix)) = prefix

\* str.rstrip('/')
RECURSIVE RStrip(_)
RStrip(s) ==
    IF s # <<>> /\ s[Len(s)] = SLASH THEN RStrip(SubSeq(s, 1, Len(s) - 1)) ELSE s

\* str.split('/'): a sequence of components (strings)
RECURSIVE SplitFrom(_, _, _)
SplitFrom(s, i, cur) ==
    IF i > Len(s) THEN <<cur>>
    ELSE IF s[i] = SLASH THEN <<cur>> \o SplitFrom(s, i + 1, <<>>)
    ELSE SplitFrom(s, i + 1, Append(cur, s[i]))

Split(s) == SplitFrom(s, 1, <<>>)

\* '/'.join(parts)
RECURSIVE Join(_)
Join(parts) ==
    IF parts = <<>> THEN <<>>
    ELSE IF Len(parts) = 1 THEN parts[1]
    ELSE parts[1] \o <<SLASH>> \o Join(Tail(parts))

(***************************************************************************)
(* Time.  A modification time (st_mtime) counts ticks, TicksPerSecond to   *)
(* the second.  Local time is a count of local seconds that stands for the *)
(* tuple (Y, M, D, h, m, s); the time zone leaves daylight saving time at  *)
(* second FoldAt, when the local clock is set back by FoldLen seconds.     *)
(***************************************************************************)
TicksPerSecond == 2
FoldAt == 4
FoldLen == 2

\* the whole seconds of a time in ticks
Sec(t) == t \div TicksPerSecond

\* time.localtime(sec)
LocalTime(sec) == sec + (IF sec < FoldAt THEN FoldLen ELSE 0)

\* time.mktime(tuple + (0, 0, -1)): the second that shows the local time; a
\* local time that the clock shows twice has two, of which the platform
\* takes the earlier or the later one
MkTime(local, later) ==
    LET cands == {sec \in (local - FoldLen)..local : LocalTime(sec) = local}
    IN IF later THEN CHOOSE sec \in cands : \A other \in cands : other <= sec
       ELSE CHOOSE sec \in cands : \A other \in cands : sec <= other

\* a variant of zip_timestamp that takes the tuple for UTC
zip_timestamp_AsUTC(date_time, later) == date_time

\* zip_timestamp(zinfo_or_tuple), in seconds
zip_timestamp(date_time, later) == MkTime(date_time, later)

\* the time of a ZIP directory record counts units of two seconds
DosTime(date_time) == date_time \div 2
FromDosTime(dostime) == dostime * 2

(***************************************************************************)
(* zipfile.ZipFile, as far as fs.py uses it.                               *)
(* A ZipInfo is identified by a key (the object's identity); a handle      *)
(* holds infos (key -> ZipInfo), filelist (keys in directory order),       *)
(* NameToInfo (name -> key, the last entry read or written with that name  *)
(* wins), fp (the bytes before the central directory) and start_dir.       *)
(* An archive file on disk is its fp and dir, the directory records, which *)
(* hold the entry's time in the two-second units of the ZIP format.        *)
(***************************************************************************)
HeaderCell(name) == <<"H">> \o name

\* the names that the handle's index knows
NameKeys(zh) == DOMAIN zh.NameToInfo

\* ZipFile.namelist()
namelist(zh) == [i \in 1..Len(zh.filelist) |-> zh.infos[zh.filelist[i]].filename]

\* building NameToInfo while the central directory is read: later entries win
RECURSIVE IndexOf(_, _, _)
IndexOf(infos, filelist, acc) ==
    IF filelist = <<>> THEN acc
    ELSE LET k == Head(filelist)
             n == infos[k].filename
         IN IndexOf(infos, Tail(filelist),
                    [m \in (DOMAIN acc) \cup {n} |-> IF m = n THEN k ELSE acc[m]])

EmptyIndex == [m \in {} |-> 0]

\* zipfile.ZipFile(file, mode): reads the central directory
ZipOpen(file, mode) ==
    LET infos == [k \in 1..Len(file.dir) |->
                     [file.dir[k] EXCEPT !.date_time = FromDosTime(@)]]
        filelist == [k \in 1..Len(file.dir) |-> k]
    IN [fp |-> file.fp,
        infos |-> infos,
        filelist |-> filelist,
        NameToInfo |-> IndexOf(infos, filelist, EmptyIndex),
        start_dir |-> Len(file.fp),
        mode |-> mode,
        didModify |-> FALSE]

\* ZipFile.infolist(): the keys of the entries in directory order
infolist(zh) == zh.filelist

\* the larger / smaller of two numbers
Max(a, b) == IF a >= b THEN a ELSE b
Min(a, b) == IF a <= b THEN a ELSE b

\* fp.seek(pos); fp.write(cells): the cells at pos.. are overwritten, the file
\* grows when the write passes its end
WriteAt(fp, pos, cells) ==
    [i \in 1..Max(Len(fp), pos + Len(cells)) |->
        IF i > pos /\ i <= pos + Len(cells) THEN cells[i - pos] ELSE fp[i]]

\* fp.seek(pos); fp.read(n)
ReadAt(fp, pos, n) == SubSeq(fp, pos + 1, Min(Len(fp), pos + n))

\* the stored form of the data under a compression type, and back
Compress(compress_type, data) ==
    IF compress_type = "ZIP_DEFLATED"
    THEN [i \in 1..Len(data) |-> <<"z">> \o data[i]]
    ELSE data

Decompress(compress_type, cells) ==
    IF compress_type = "ZIP_DEFLATED"
    THEN [i \in 1..Len(cells) |-> Tail(cells[i])]
    ELSE cells

\* ZipFile.getinfo(name): the key, or 0 for KeyError
getinfo(zh, name) == IF name \in NameKeys(zh) THEN zh.NameToInfo[name] ELSE 0

\* ZipFile.read(zinfo): the local header is checked against orig_filename,
\* then the data is read and decompressed; BadZipFile otherwise
ZipRead(zh, k) ==
    LET info == zh.infos[k]
        hdr == ReadAt(zh.fp, info.header_offset, 1)
    IN IF hdr = <<HeaderCell(info.orig_filename)>>
       THEN [ok |-> TRUE,
             data |-> Decompress(info.compress_type,
                                 ReadAt(zh.fp, info.header_offset + 1, info.file_size))]
       ELSE [ok |-> FALSE, data |-> <<>>]

\* a 32-bit value as <<its high 16 bits, its low 16 bits>>: x << 16 for a
\* 16-bit x, and the value with the bits of a 16-bit flag set
Shifted16(x) == <<x % 65536, 0>>

RECURSIVE BitOr(_, _)
BitOr(a, b) ==
    IF a = 0 THEN b
    ELSE IF b = 0 THEN a
    ELSE (IF a % 2 = 1 \/ b % 2 = 1 THEN 1 ELSE 0) + 2 * BitOr(a \div 2, b \div 2)

WithFlag(attr, flag) == <<attr[1], BitOr(attr[2], flag)>>

\* the MS-DOS directory flag of external_attr
DosDirFlag == 16

\* a fresh ZipInfo(filename, date_time)
ZipInfo(filename, date_time) ==
    [filename |-> filename,
     orig_filename |-> filename,
     header_offset |-> 0,
     file_size |-> 0,
     compress_type |-> "ZIP_STORED",
     date_time |-> date_time,
     external_attr |-> <<0, 0>>]

\* the key of the next ZipInfo object of the handle
NewKey(zh) == Cardinality(DOMAIN zh.infos) + 1

\* ZipFile.writestr(zinfo, data, compress_type) and ZipFile.open(zinfo, 'w'):
\* the entry is written at start_dir and appended to the directory, and takes
\* over the name in NameToInfo
ZipWritestr(zh, zinfo, data, compress_type) ==
    LET k == NewKey(zh)
        info == [zinfo EXCEPT !.header_offset = zh.start_dir,
                              !.orig_filename = zinfo.filename,
                              !.file_size = Len(data),
                              !.compress_type = compress_type]
        cells == <<HeaderCell(info.filename)>> \o Compress(compress_type, data)
    IN [zh EXCEPT !.fp = WriteAt(zh.fp, zh.start_dir, cells),
                  !.infos = [j \in (DOMAIN zh.infos) \cup {k} |->
                                IF j = k THEN info ELSE zh.infos[j]],
                  !.filelist = Append(zh.filelist, k),
                  !.NameToInfo = [m \in NameKeys(zh) \cup {info.filename} |->
                                     IF m = info.filename THEN k ELSE zh.NameToInfo[m]],
                  !.start_dir = zh.start_dir + Len(cells),
                  !.didModify = TRUE]

\* ZipFile.close(): a modified archive gets its directory written at start_dir
\* and is truncated behind it; file is what the handle was opened on
ZipClose(zh, file) ==
    IF zh.mode = "a" /\ zh.didModify
    THEN [fp |-> SubSeq(zh.fp, 1, zh.start_dir),
          dir |-> [i \in 1..Len(zh.filelist) |->
                     [zh.infos[zh.filelist[i]] EXCEPT !.date_time = DosTime(@)]]]
    ELSE file

\* the length of the archive file: the entries, one record per directory entry
\* and the end record
FileLength(file) == Len(file.fp) + Len(file.dir) + 1

(***************************************************************************)
(* zip_check_subpath                                                       *)
(***************************************************************************)
ZIP_SUBPATH_NONE == 0
ZIP_SUBPATH_INVALID == 1
ZIP_SUBPATH_FILE == 2
ZIP_SUBPATH_DIR == 3
ZIP_SUBPATH_DIR_IMPLICIT == 4
ZIP_SUBPATH_DIR_ROOT == 5

\* the loop "check if an ancestor is a file"
AncestorIsFile(zh, parts) ==
    \E i \in 0..(Len(parts) - 2) : Join(SubSeq(parts, 1, i + 1)) \in NameKeys(zh)

\* a variant that looks for the entry itself before it looks at the ancestors
zip_check_subpath_FileFirst(zh, subpath) ==
    LET base == RStrip(subpath)
        parts == Split(base)
        base_dir == base \o <<SLASH>>
        names == namelist(zh)
    IN IF base = <<>> THEN ZIP_SUBPATH_DIR_ROOT
       ELSE IF base \in NameKeys(zh) THEN ZIP_SUBPATH_FILE
       ELSE IF AncestorIsFile(zh, parts) THEN ZIP_SUBPATH_INVALID
       ELSE IF base_dir \in NameKeys(zh) THEN ZIP_SUBPATH_DIR
       ELSE IF \E i \in 1..Len(names) : StartsWith(names[i], base_dir)
            THEN ZIP_SUBPATH_DIR_IMPLICIT
       ELSE ZIP_SUBPATH_NONE

zip_check_subpath(zh, subpath) ==
    LET base == RStrip(subpath)
        parts == Split(base)
        base_dir == base \o <<SLASH>>
        names == namelist(zh)
    IN IF base = <<>> THEN ZIP_SUBPATH_DIR_ROOT
       ELSE IF AncestorIsFile(zh, parts) THEN ZIP_SUBPATH_INVALID
       ELSE IF base \in NameKeys(zh) THEN ZIP_SUBPATH_FILE
       ELSE IF base_dir \in NameKeys(zh) THEN ZIP_SUBPATH_DIR
       ELSE IF \E i \in 1..Len(names) : StartsWith(names[i], base_dir)
            THEN ZIP_SUBPATH_DIR_IMPLICIT
       ELSE ZIP_SUBPATH_NONE


(***************************************************************************)
(* _zip_remove_members and zip_remove                                      *)
(***************************************************************************)
\* sorted(self.filelist, key=lambda x: x.header_offset): a stable sort
RECURSIVE InsertByOffset(_, _, _)
InsertByOffset(infos, sorted, k) ==
    IF sorted = <<>> THEN <<k>>
    ELSE IF infos[Head(sorted)].header_offset <= infos[k].header_offset
         THEN <<Head(sorted)>> \o InsertByOffset(infos, Tail(sorted), k)
         ELSE <<k>> \o sorted

RECURSIVE SortByOffset(_, _)
SortByOffset(infos, keys) ==
    IF keys = <<>> THEN <<>>
    ELSE InsertByOffset(infos,
                        SortByOffset(infos, SubSeq(keys, 1, Len(keys) - 1)),
                        keys[Len(keys)])

\* list.remove(x): the first occurrence is removed
RECURSIVE ListRemove(_, _)
ListRemove(list, x) ==
    IF list = <<>> THEN <<>>
    ELSE IF Head(list) = x THEN Tail(list)
    ELSE <<Head(list)>> \o ListRemove(Tail(list), x)

\* a variant that writes every block at the start of the target span
RECURSIVE MoveEntryData_FixedTarget(_, _, _, _, _, _)
MoveEntryData_FixedTarget(fp, old_header_offset, new_header_offset, entry_size, read_size, buffer_size) ==
    IF read_size >= entry_size THEN fp
    ELSE LET data == ReadAt(fp, old_header_offset + read_size,
                            Min(entry_size - read_size, buffer_size))
         IN MoveEntryData_FixedTarget(WriteAt(fp, new_header_offset, data),
                          old_header_offset, new_header_offset, entry_size,
                          read_size + Len(data), buffer_size)

\* the loop "while read_size < entry_size": the entry's bytes are copied from
\* old_header_offset to new_header_offset in blocks of at most buffer_size
RECURSIVE MoveEntryData(_, _, _, _, _, _)
MoveEntryData(fp, old_header_offset, new_header_offset, entry_size, read_size, buffer_size) ==
    IF read_size >= entry_size THEN fp
    ELSE LET data == ReadAt(fp, old_header_offset + read_size,
                            Min(entry_size - read_size, buffer_size))
         IN MoveEntryData(WriteAt(fp, new_header_offset + read_size, data),
                          old_header_offset, new_header_offset, entry_size,
                          read_size + Len(data), buffer_size)

\* the loop "for i in range(len(filelist))" over the entries sorted by offset;
\* moved lists the entries whose data went through the copying loop
RECURSIVE RemoveSweep(_, _, _, _, _, _, _, _)
RemoveSweep(zh, filelist, i, entry_offset, member_seen, members, remove_physical, buffer_size) ==
    IF i > Len(filelist) THEN [zh |-> zh, entry_offset |-> entry_offset, moved |-> <<>>]
    ELSE
      LET k == filelist[i]
          info == zh.infos[k]
          is_member == k \in members
          offset == IF i + 1 <= Len(filelist)
                    THEN zh.infos[filelist[i + 1]].header_offset
                    ELSE zh.start_dir
          entry_size == offset - info.header_offset
      IN IF ~(member_seen \/ is_member)
         THEN RemoveSweep(zh, filelist, i + 1, entry_offset, member_seen,
                          members, remove_physical, buffer_size)
         ELSE IF is_member
         THEN RemoveSweep(
                  [zh EXCEPT !.filelist = ListRemove(zh.filelist, k),
                             !.NameToInfo = [m \in NameKeys(zh) \ {info.filename} |->
                                                zh.NameToInfo[m]]],
                  filelist, i + 1, entry_offset + entry_size, TRUE,
                  members, remove_physical, buffer_size)
         ELSE IF remove_physical
         THEN LET rest == RemoveSweep(
                  [zh EXCEPT !.infos[k].header_offset = info.header_offset - entry_offset,
                             !.fp = MoveEntryData(zh.fp, info.header_offset,
                                                  info.header_offset - entry_offset,
                                                  entry_size, 0, buffer_size)],
                  filelist, i + 1, entry_offset, member_seen,
                  members, remove_physical, buffer_size)
              IN [rest EXCEPT !.moved = <<k>> \o @]
         ELSE RemoveSweep(zh, filelist, i + 1, entry_offset, member_seen,
                          members, remove_physical, buffer_size)

\* a variant that goes through the list from the front
RECURSIVE SetDefaultReversed_Forward(_, _, _)
SetDefaultReversed_Forward(infos, filelist, index) ==
    IF filelist = <<>> THEN index
    ELSE LET k == Head(filelist)
             n == infos[k].filename
         IN SetDefaultReversed_Forward(infos, Tail(filelist),
                [m \in (DOMAIN index) \cup {n} |->
                    IF m \in DOMAIN index THEN index[m] ELSE k])

\* the loop "for info in reversed(self.filelist): NameToInfo.setdefault(...)"
RECURSIVE SetDefaultReversed(_, _, _)
SetDefaultReversed(infos, filelist, index) ==
    IF filelist = <<>> THEN index
    ELSE LET k == filelist[Len(filelist)]
             n == infos[k].filename
         IN SetDefaultReversed(infos, SubSeq(filelist, 1, Len(filelist) - 1),
                [m \in (DOMAIN index) \cup {n} |->
                    IF m \in DOMAIN index THEN index[m] ELSE k])

\* a variant of _zip_remove_members that does not mark the handle as modified
zip_remove_members_Unmarked(zh, members, remove_physical, buffer_size) ==
    LET swept == RemoveSweep(zh, SortByOffset(zh.infos, zh.filelist), 1, 0, FALSE,
                             members, remove_physical, buffer_size)
        z == swept.zh
    IN [z EXCEPT !.NameToInfo = SetDefaultReversed(z.infos, z.filelist, z.NameToInfo),
                 !.start_dir = IF remove_physical
                               THEN z.start_dir - swept.entry_offset
                               ELSE z.start_dir]

\* a variant of _zip_remove_members that leaves start_dir where it was
zip_remove_members_StartKept(zh, members, remove_physical, buffer_size) ==
    LET swept == RemoveSweep(zh, SortByOffset(zh.infos, zh.filelist), 1, 0, FALSE,
                             members, remove_physical, buffer_size)
        z == swept.zh
    IN [z EXCEPT !.NameToInfo = SetDefaultReversed(z.infos, z.filelist, z.NameToInfo),
                 !.didModify = TRUE]

\* _zip_remove_members(zip, members, remove_physical=..., buffer_size=...);
\* members is a set of keys of the handle
zip_remove_members(zh, members, remove_physical, buffer_size) ==
    LET swept == RemoveSweep(zh, SortByOffset(zh.infos, zh.filelist), 1, 0, FALSE,
                             members, remove_physical, buffer_size)
        z == swept.zh
    IN [z EXCEPT !.NameToInfo = SetDefaultReversed(z.infos, z.filelist, z.NameToInfo),
                 !.start_dir = IF remove_physical
                               THEN z.start_dir - swept.entry_offset
                               ELSE z.start_dir,
                 !.didModify = TRUE]

\* the entries that _zip_remove_members moved, in the order of the moves
MovedEntries(zh, members, remove_physical, buffer_size) ==
    RemoveSweep(zh, SortByOffset(zh.infos, zh.filelist), 1, 0, FALSE,
                members, remove_physical, buffer_size).moved

\* fp.tell() after "fp.seek(self.start_dir)", the last statement
SeekStartDir(zh) == zh.start_dir

\* buffer_size=2**20, the default of _zip_remove_members
DefaultBufferSize == 1048576

\* zip_remove(zip, arcname): the member that getinfo finds is removed;
\* [ok |-> FALSE] stands for the KeyError of a missing name
zip_remove(zh, arcname) ==
    IF getinfo(zh, arcname) = 0 THEN [ok |-> FALSE, zh |-> zh]
    ELSE [ok |-> TRUE,
          zh |-> zip_remove_members(zh, {getinfo(zh, arcname)}, TRUE, DefaultBufferSize)]

(***************************************************************************)
(* Composite paths and open_archive_path.                                  *)
(* A CPath is a sequence: the path of a file on disk, then the subpaths.   *)
(* disk maps the paths that exist to what is there.                        *)
(***************************************************************************)
\* cpath[-1]
(***************************************************************************)
(* The disk: a function from the paths that exist to nodes.  A plain file  *)
(* is [kind |-> "file", data, mtime], a directory [kind |-> "dir", mtime], *)
(* an archive file [fp, dir].  Paths are absolute, written without the     *)
(* leading part that all of them share: <<>> is that directory.            *)
(***************************************************************************)
FileNode(data, mtime) == [kind |-> "file", data |-> data, mtime |-> mtime]
DirNode(mtime) == [kind |-> "dir", mtime |-> mtime]

\* os.path.lexists
lexists(d, path) == path = <<>> \/ path \in DOMAIN d

\* a file that zipfile.ZipFile reads
IsArchive(node) == "fp" \in DOMAIN node

\* os.path.isdir
isdir(d, path) ==
    \/ path = <<>>
    \/ /\ path \in DOMAIN d
       /\ ~IsArchive(d[path])
       /\ d[path].kind = "dir"

\* the position of the last '/' of the path, 0 if there is none
LastSlash(path) ==
    LET slashes == {i \in 1..Len(path) : path[i] = SLASH}
    IN IF slashes = {} THEN 0 ELSE CHOOSE i \in slashes : \A j \in slashes : j <= i

\* os.path.basename(path): what follows the last '/'
Basename(path) == SubSeq(path, LastSlash(path) + 1, Len(path))

\* os.path.dirname(path): what precedes the last '/'
Dirname(path) == SubSeq(path, 1, LastSlash(path) - 1)

\* os.path.join(a, b) for a relative b
PathJoin(a, b) ==
    IF a = <<>> \/ a[Len(a)] = SLASH THEN a \o b ELSE a \o <<SLASH>> \o b

\* the paths of the disk below the directory top
Below(d, top) == {p \in DOMAIN d : StartsWith(p, top \o <<SLASH>>)}

\* the entries of the directory dir
Children(d, dir) == {p \in DOMAIN d : Dirname(p) = dir /\ LastSlash(p) = Len(dir) + 1}

\* a node appears at path: the directory that holds it is modified
Create(d, path, node, now) ==
    [p \in (DOMAIN d) \cup {path} |->
        IF p = path THEN node
        ELSE IF p = Dirname(path) /\ path \notin DOMAIN d THEN [d[p] EXCEPT !.mtime = now]
        ELSE d[p]]

\* os.makedirs(path, exist_ok=True); ok is FALSE for the OSError raised when
\* a file is in the way
RECURSIVE makedirs(_, _, _)
makedirs(d, path, now) ==
    IF lexists(d, path) THEN [ok |-> isdir(d, path), disk |-> d]
    ELSE LET up == makedirs(d, Dirname(path), now)
         IN IF ~up.ok THEN up
            ELSE [ok |-> TRUE, disk |-> Create(up.disk, path, DirNode(now), now)]

\* the path src re-rooted from the tree at "from" to the tree at "to"
Rerooted(path, from, to) == to \o SubSeq(path, Len(from) + 1, Len(path))

\* shutil.copytree(src, dst) and, for a file, shutil.copy2(src, dst): the
\* nodes keep data and times
copytree(d, src, dst, now) ==
    LET tree == {src} \cup Below(d, src)
        placed == Create(d, dst, d[src], now)
    IN [p \in (DOMAIN placed) \cup {Rerooted(q, src, dst) : q \in tree} |->
           IF \E q \in tree : p = Rerooted(q, src, dst) /\ p # dst
           THEN d[CHOOSE q \in tree : p = Rerooted(q, src, dst)]
           ELSE placed[p]]

(***************************************************************************)
(* Exceptions.  A raw exception is named by its class; _map_exc tests      *)
(* isinstance, so the base classes of a class count.                       *)
(***************************************************************************)
\* the direct base class of the classes that fs.py meets
BaseOf(cls) ==
    CASE cls \in {"PermissionError", "FileNotFoundError", "NotADirectoryError",
                  "FileExistsError", "IsADirectoryError", "shutil.Error"} -> "OSError"
      [] cls \in {"OSError", "BadZipFile", "LookupError", "ValueError",
                  "RuntimeError", "AssertionError"} -> "Exception"
      [] cls = "KeyError" -> "LookupError"
      [] cls = "shutil.SameFileError" -> "shutil.Error"
      [] OTHER -> "BaseException"

RECURSIVE isinstance(_, _)
isinstance(cls, base) ==
    \/ cls = base
    \/ cls \notin {"Exception", "BaseException"} /\ isinstance(BaseOf(cls), base)

\* a variant of _map_exc that takes every OSError for a missing entry
map_exc_OSErrorNotFound(cls) ==
    IF isinstance(cls, "PermissionError") THEN "FSPermissionError"
    ELSE IF isinstance(cls, "OSError") THEN "FSEntryNotFoundError"
    ELSE IF isinstance(cls, "BadZipFile") THEN "FSBadZipFileError"
    ELSE "FSError"

\* _map_exc(exc, cpath): the class of the FSError
map_exc(cls) ==
    IF isinstance(cls, "PermissionError") THEN "FSPermissionError"
    ELSE IF isinstance(cls, "FileNotFoundError") THEN "FSEntryNotFoundError"
    ELSE IF isinstance(cls, "NotADirectoryError") THEN "FSEntryNotFoundError"
    ELSE IF isinstance(cls, "FileExistsError") THEN "FSEntryExistsError"
    ELSE IF isinstance(cls, "BadZipFile") THEN "FSBadZipFileError"
    ELSE "FSError"

\* zipfile.ZipFile(file): the exception raised when the file is no archive,
\* "" when it opens
OpenError(d, file) ==
    IF ~lexists(d, file) THEN "FileNotFoundError"
    ELSE IF isdir(d, file) THEN "IsADirectoryError"
    ELSE IF ~IsArchive(d[file]) THEN "BadZipFile"
    ELSE ""

LastSeg(cpath) == cpath[Len(cpath)]

\* cpath.file
FileOf(cpath) == cpath[1]

(***************************************************************************)
(* open_archive_path for a path of any length.  Level 0 is the archive     *)
(* file on disk; level i is the archive held in the entry cpath[i] of      *)
(* level i - 1, opened on a stream (mode 'r') or on an in-memory buffer    *)
(* (mode 'a').  A run of the context manager is a record: the stack of     *)
(* the code, the handle of each level, the buffer of each nested level,    *)
(* the objects opened and the objects closed, in order, the levels whose   *)
(* archive had an entry written back, the exception raised, and the disk.  *)
(***************************************************************************)
\* zipfile.ZipFile(fh) on the bytes of an entry: BadZipFile without the end
\* record
IsZipBytes(cells) == cells # <<>> /\ cells[Len(cells)] = <<"Z">>

\* the value of time.time() during a call, in ticks
Now == 3

\* the bytes of an archive file: the entries, a cell for each record of the
\* central directory, and the end record
ArchiveBytes(file) ==
    file.fp \o [i \in 1..Len(file.dir) |-> <<"C", file.dir[i]>>] \o <<<<"Z">>>>

IsDirCell(cell) == Len(cell) = 2 /\ cell[1] = "C"

\* the number of directory cells that end at position n of the bytes
RECURSIVE CountDirCells(_, _)
CountDirCells(cells, n) ==
    IF n >= 1 /\ IsDirCell(cells[n]) THEN 1 + CountDirCells(cells, n - 1) ELSE 0

\* the archive file that the bytes hold: the central directory is read from
\* the end
FileInBytes(cells) ==
    LET n == CountDirCells(cells, Len(cells) - 1)
        start == Len(cells) - 1 - n
    IN [fp |-> SubSeq(cells, 1, start),
        dir |-> [i \in 1..n |-> cells[start + i][2]]]

\* zipfile.ZipFile(fh, mode) on a stream or buffer that holds the bytes; mode
\* 'a' takes bytes that are no archive for the start of a new one
ZipOpenBuffer(cells, mode) ==
    IF IsZipBytes(cells) THEN ZipOpen(FileInBytes(cells), mode)
    ELSE [ZipOpen([fp |-> cells, dir |-> <<>>], mode) EXCEPT !.didModify = TRUE]

\* ZipFile.close() of a handle on a buffer: the bytes of the buffer afterwards
BufferClosed(zh, cells) ==
    IF zh.mode = "a" /\ zh.didModify
    THEN ArchiveBytes(ZipClose(zh, [fp |-> <<>>, dir |-> <<>>]))
    ELSE cells

\* the objects of a run: the ZipFile of a level ("zh"), the stream or buffer
\* it is opened on ("fh"), the stream that fills the buffer ("fr") and the
\* stream that writes the buffer into the level ("fw")
Handle(kind, level) == [kind |-> kind, level |-> level]

\* the number of nested levels of the path
Last(cpath) == Len(cpath) - 2

\* the state of a run after zipfile.ZipFile(cpath[0], mode)
Opened0(d, cpath, mode) ==
    [stack |-> <<Handle("zh", 0)>>,
     zh |-> <<ZipOpen(d[FileOf(cpath)], mode)>>,
     buf |-> <<>>,
     opened |-> <<Handle("zh", 0)>>,
     closed |-> <<>>,
     wrote |-> <<>>,
     raised |-> "",
     disk |-> d]

Push(st, h) == [st EXCEPT !.stack = Append(@, h), !.opened = Append(@, h)]

\* mode 'r', the loop over the nested levels from level i on
RECURSIVE OpenLayersR(_, _, _)
OpenLayersR(st, cpath, i) ==
    IF i > Last(cpath) THEN st
    ELSE LET parent == st.zh[i]
             key == getinfo(parent, cpath[i + 1])
             fh == ZipRead(parent, key)
             streamed == [Push(st, Handle("fh", i)) EXCEPT !.buf = Append(@, fh.data)]
         IN IF key = 0 THEN [st EXCEPT !.raised = "KeyError"]
            ELSE IF ~fh.ok THEN [st EXCEPT !.raised = "BadZipFile"]
            ELSE IF ~IsZipBytes(fh.data) THEN [streamed EXCEPT !.raised = "BadZipFile"]
            ELSE OpenLayersR([Push(streamed, Handle("zh", i)) EXCEPT
                                 !.zh = Append(@, ZipOpenBuffer(fh.data, "r"))],
                             cpath, i + 1)

\* mode 'a', the loop over the nested levels from level i on: the buffer is
\* created, then filled from the entry, then pushed
RECURSIVE OpenLayersA(_, _, _)
OpenLayersA(st, cpath, i) ==
    IF i > Last(cpath) THEN st
    ELSE LET parent == st.zh[i]
             key == getinfo(parent, cpath[i + 1])
             fr == ZipRead(parent, key)
             created == [st EXCEPT !.opened = Append(@, Handle("fh", i))]
             filled == [created EXCEPT
                           !.opened = Append(@, Handle("fr", i)),
                           !.closed = Append(@, Handle("fr", i)),
                           !.buf = Append(@, fr.data),
                           !.stack = Append(@, Handle("fh", i))]
         IN IF key = 0 THEN [created EXCEPT !.raised = "KeyError"]
            ELSE IF ~fr.ok THEN [created EXCEPT !.raised = "BadZipFile"]
            ELSE OpenLayersA([Push(filled, Handle("zh", i)) EXCEPT
                                 !.zh = Append(@, ZipOpenBuffer(fr.data, "a"))],
                             cpath, i + 1)

\* zh.close() or fh.close() of the object h
Close(st, cpath, h) ==
    LET marked == [st EXCEPT !.closed = Append(@, h)]
    IN IF h.kind # "zh" THEN marked
       ELSE IF h.level = 0
       THEN [marked EXCEPT !.disk =
                [f \in DOMAIN st.disk |->
                    IF f = FileOf(cpath) THEN ZipClose(st.zh[1], st.disk[f])
                    ELSE st.disk[f]]]
       ELSE [marked EXCEPT !.buf[h.level] = BufferClosed(st.zh[h.level + 1], @)]

Front(seq) == SubSeq(seq, 1, Len(seq) - 1)

\* one write-back step: the buffer of level i + 1 replaces the entry
\* cpath[i + 1] of the archive of level i
Replace(st, cpath, i, now) ==
    LET zh == st.zh[i + 1]
        name == cpath[i + 2]
        zinfo == [zh.infos[getinfo(zh, name)] EXCEPT !.date_time = LocalTime(Sec(now))]
        written == ZipWritestr(zip_remove(zh, name).zh, zinfo, st.buf[i + 1], "ZIP_STORED")
    IN [st EXCEPT !.zh[i + 1] = written,
                  !.opened = Append(@, Handle("fw", i)),
                  !.closed = Append(@, Handle("fw", i)),
                  !.wrote = Append(@, i)]

\* the loop that follows the yield in mode 'a', from level i down; fh is the
\* level of the buffer popped last, -1 for None; the step of level fail
\* raises before it has changed its archive
RECURSIVE WriteBack(_, _, _, _, _, _)
WriteBack(st, cpath, i, fh, fail, now) ==
    IF i < 0 THEN st
    ELSE LET popped == [st EXCEPT !.stack = Front(@)]
             replaced == IF fh # -1
                         THEN Close(Replace(popped, cpath, i, now), cpath, Handle("fh", fh))
                         ELSE popped
             closed == Close(replaced, cpath, Handle("zh", i))
         IN IF fh # -1 /\ fail = i THEN [popped EXCEPT !.raised = "OSError"]
            ELSE IF i > 0
            THEN WriteBack([closed EXCEPT !.stack = Front(@)], cpath, i - 1, i, fail, now)
            ELSE closed

\* the finally clause: what is left on the stack is closed, the last first
RECURSIVE Finally(_, _)
Finally(st, cpath) ==
    IF st.stack = <<>> THEN st
    ELSE Finally(Close([st EXCEPT !.stack = Front(@)], cpath, st.stack[Len(st.stack)]),
                 cpath)

\* the levels of the path opened in the mode
Layers(d, cpath, mode) ==
    IF mode = "r" THEN OpenLayersR(Opened0(d, cpath, mode), cpath, 1)
    ELSE OpenLayersA(Opened0(d, cpath, mode), cpath, 1)

\* the exception that open_archive_path(cpath) raises before it yields, ""
\* when it yields
FirstError(err, st) == IF err # "" THEN err ELSE st.raised

ArchiveError(d, cpath) ==
    FirstError(OpenError(d, FileOf(cpath)), Layers(d, cpath, "r"))

\* open_archive_path(cpath, mode): the handle that the with-block receives,
\* the one of the innermost archive
Yielded(st) == st.zh[Len(st.zh)]

open_archive_path(d, cpath, mode) == Yielded(Layers(d, cpath, mode))

\* leaving the with-block of open_archive_path normally with the handle zh:
\* the write-back loop, then the finally clause; the disk afterwards
\* the state of the layers st once the with-block has left the handle zh
Resumed(st, zh) == [st EXCEPT !.zh[Len(st.zh)] = zh]

AfterYield(ran, cpath, mode) ==
    IF mode = "r" THEN ran
    ELSE WriteBack(ran, cpath, Last(cpath), -1, -1, Now)

close_archive_path(d, cpath, zh) ==
    Finally(AfterYield(Resumed(Layers(d, cpath, zh.mode), zh), cpath, zh.mode),
            cpath).disk

\* leaving the with-block by an exception: the finally clause alone
leave_archive_path(d, cpath, zh) ==
    Finally(Resumed(Layers(d, cpath, zh.mode), zh), cpath).disk

\* what an operation hands back: the disk afterwards and the error raised
\* ("" when it returns normally, else the class of the FSError)
Outcome(d, err, cpath) == [disk |-> d, err |-> err, cpath |-> cpath]

NoError == ""

DirStates == {ZIP_SUBPATH_DIR, ZIP_SUBPATH_DIR_IMPLICIT, ZIP_SUBPATH_DIR_ROOT}

(***************************************************************************)
(* mkdir (the archive case)                                                *)
(***************************************************************************)
\* the file type bits of a directory in st_mode (0o40000)
S_IFDIR == 16384

\* a variant of mkdir that stores the mode without the directory type
mkdir_ModeOnly(d, cpath, mode, exist_ok, now) ==
    LET cur == zip_check_subpath(open_archive_path(d, cpath, "r"), LastSeg(cpath))
        zh == open_archive_path(d, cpath, "a")
        zinfo == [ZipInfo(LastSeg(cpath) \o <<SLASH>>, LocalTime(Sec(now))) EXCEPT
                     !.external_attr = WithFlag(Shifted16(mode), DosDirFlag)]
    IN IF ArchiveError(d, cpath) # ""
       THEN Outcome(d, map_exc(ArchiveError(d, cpath)), cpath)
       ELSE IF cur = ZIP_SUBPATH_INVALID THEN Outcome(d, "FSBadParentError", cpath)
       ELSE IF cur = ZIP_SUBPATH_FILE THEN Outcome(d, "FSFileExistsError", cpath)
       ELSE IF cur \in {ZIP_SUBPATH_DIR, ZIP_SUBPATH_DIR_ROOT}
       THEN IF exist_ok THEN Outcome(d, NoError, cpath)
            ELSE Outcome(d, "FSDirExistsError", cpath)
       ELSE Outcome(close_archive_path(d, cpath, ZipWritestr(zh, zinfo, <<>>, "ZIP_STORED")),
                    NoError, cpath)

\* mkdir(cpath, mode, exist_ok); now is the value of time.time()
\* a variant that takes an implicit directory for an existing one
mkdir_ImplicitExists(d, cpath, mode, exist_ok, now) ==
    LET cur == zip_check_subpath(open_archive_path(d, cpath, "r"), LastSeg(cpath))
        zh == open_archive_path(d, cpath, "a")
        zinfo == [ZipInfo(LastSeg(cpath) \o <<SLASH>>, LocalTime(Sec(now))) EXCEPT
                     !.external_attr = WithFlag(Shifted16(BitOr(S_IFDIR, mode)), DosDirFlag)]
    IN IF ArchiveError(d, cpath) # ""
       THEN Outcome(d, map_exc(ArchiveError(d, cpath)), cpath)
       ELSE IF cur = ZIP_SUBPATH_INVALID THEN Outcome(d, "FSBadParentError", cpath)
       ELSE IF cur = ZIP_SUBPATH_FILE THEN Outcome(d, "FSFileExistsError", cpath)
       ELSE IF cur \in {ZIP_SUBPATH_DIR, ZIP_SUBPATH_DIR_ROOT, ZIP_SUBPATH_DIR_IMPLICIT}
       THEN IF exist_ok THEN Outcome(d, NoError, cpath)
            ELSE Outcome(d, "FSDirExistsError", cpath)
       ELSE Outcome(close_archive_path(d, cpath, ZipWritestr(zh, zinfo, <<>>, "ZIP_STORED")),
                    NoError, cpath)

\* the body of mkdir: err is what open_archive_path raises ("" when it
\* yields), cur the class of the subpath in the archive opened for reading,
\* zh the handle opened for appending
MkdirEntry(d, cpath, mode, exist_ok, now, err, cur, zh) ==
    LET zinfo == [ZipInfo(LastSeg(cpath) \o <<SLASH>>, LocalTime(Sec(now))) EXCEPT
                     !.external_attr = WithFlag(Shifted16(BitOr(S_IFDIR, mode)), DosDirFlag)]
    IN IF err # ""
       THEN Outcome(d, map_exc(err), cpath)
       ELSE IF cur = ZIP_SUBPATH_INVALID THEN Outcome(d, "FSBadParentError", cpath)
       ELSE IF cur = ZIP_SUBPATH_FILE THEN Outcome(d, "FSFileExistsError", cpath)
       ELSE IF cur \in {ZIP_SUBPATH_DIR, ZIP_SUBPATH_DIR_ROOT}
       THEN IF exist_ok THEN Outcome(d, NoError, cpath)
            ELSE Outcome(d, "FSDirExistsError", cpath)
       ELSE Outcome(close_archive_path(d, cpath, ZipWritestr(zh, zinfo, <<>>, "ZIP_STORED")),
                    NoError, cpath)

mkdir(d, cpath, mode, exist_ok, now) ==
    MkdirEntry(d, cpath, mode, exist_ok, now, ArchiveError(d, cpath),
               zip_check_subpath(open_archive_path(d, cpath, "r"), LastSeg(cpath)),
               open_archive_path(d, cpath, "a"))

(***************************************************************************)
(* save (the archive case)                                                 *)
(***************************************************************************)
\* src is [kind, data]: kind "bytes", "stream" (an object with a callable
\* read) or "other"; now is the value of time.localtime()
SaveWritten(d, cpath, src, zh1, zinfo) ==
    IF src.kind = "bytes"
    THEN Outcome(close_archive_path(d, cpath,
                     ZipWritestr(zh1, zinfo, src.data, "ZIP_DEFLATED")),
                 NoError, cpath)
    ELSE IF src.kind = "stream"
    THEN Outcome(close_archive_path(d, cpath,
                     ZipWritestr(zh1, zinfo, src.data, zinfo.compress_type)),
                 NoError, cpath)
    \* the with-block is left normally, then ValueError is raised and mapped
    ELSE Outcome(close_archive_path(d, cpath, zh1), "FSError", cpath)

\* the body of save: err is what open_archive_path raises ("" when it
\* yields), cur the class of the subpath in the archive opened for reading,
\* zh the handle opened for appending
SaveEntry(d, cpath, src, now, err, cur, zh) ==
    IF err # "" THEN Outcome(d, map_exc(err), cpath)
    ELSE IF cur = ZIP_SUBPATH_INVALID THEN Outcome(d, "FSBadParentError", cpath)
    ELSE IF cur \in DirStates THEN Outcome(d, "FSIsADirectoryError", cpath)
    ELSE SaveWritten(d, cpath, src,
                     IF cur = ZIP_SUBPATH_FILE THEN zip_remove(zh, LastSeg(cpath)).zh
                     ELSE zh,
                     ZipInfo(LastSeg(cpath), LocalTime(Sec(now))))

save(d, cpath, src, now) ==
    SaveEntry(d, cpath, src, now, ArchiveError(d, cpath),
              zip_check_subpath(open_archive_path(d, cpath, "r"), LastSeg(cpath)),
              open_archive_path(d, cpath, "a"))

(***************************************************************************)
(* delete (the archive case)                                               *)
(***************************************************************************)
\* a variant that selects by the prefix base instead of base_dir
MembersUnder_Prefix(zh, base, base_dir) ==
    {zh.filelist[i] : i \in {j \in 1..Len(zh.filelist) :
        StartsWith(zh.infos[zh.filelist[j]].filename, base)}}

\* the keys of the entries named base or lying under base_dir
MembersUnder(zh, base, base_dir) ==
    {zh.filelist[i] : i \in {j \in 1..Len(zh.filelist) :
        \/ zh.infos[zh.filelist[j]].filename = base
        \/ StartsWith(zh.infos[zh.filelist[j]].filename, base_dir)}}

\* a variant that fails by the class of the subpath instead of by the
\* emptiness of the selection
delete_Classify(d, cpath) ==
    LET zh == open_archive_path(d, cpath, "a")
        base == LastSeg(cpath)
        base_dir == base \o (IF base # <<>> THEN <<SLASH>> ELSE <<>>)
        zinfos == MembersUnder(zh, base, base_dir)
    IN IF ArchiveError(d, cpath) # ""
       THEN Outcome(d, map_exc(ArchiveError(d, cpath)), cpath)
       ELSE IF zip_check_subpath(zh, base) = ZIP_SUBPATH_NONE
            THEN Outcome(leave_archive_path(d, cpath, zh),
                         "FSEntryNotFoundError", cpath)
       ELSE Outcome(close_archive_path(d, cpath,
                        zip_remove_members(zh, zinfos, TRUE, DefaultBufferSize)),
                    NoError, cpath)

\* the body of delete: err is what open_archive_path raises ("" when it
\* yields), zh the handle opened for appending
DeleteEntries(d, cpath, err, zh) ==
    LET base == LastSeg(cpath)
        base_dir == base \o (IF base # <<>> THEN <<SLASH>> ELSE <<>>)
        zinfos == MembersUnder(zh, base, base_dir)
    IN IF err # ""
       THEN Outcome(d, map_exc(err), cpath)
       ELSE IF zinfos = {} THEN Outcome(leave_archive_path(d, cpath, zh),
                                   "FSEntryNotFoundError", cpath)
       ELSE Outcome(close_archive_path(d, cpath,
                        zip_remove_members(zh, zinfos, TRUE, DefaultBufferSize)),
                    NoError, cpath)

delete(d, cpath) ==
    DeleteEntries(d, cpath, ArchiveError(d, cpath), open_archive_path(d, cpath, "a"))

(***************************************************************************)
(* _check_move_copy, _check_move, _dstinsrc                                *)
(***************************************************************************)
\* a variant of the checks on the source that takes a subpath below a file
\* entry for a missing one
CheckSource_InvalidMissing(d, csrc) ==
    IF Len(csrc) = 1
    THEN [err |-> IF lexists(d, FileOf(csrc)) THEN NoError ELSE "FSEntryNotFoundError",
          zst |-> -1]
    ELSE LET cur == zip_check_subpath(open_archive_path(d, csrc, "r"), LastSeg(csrc))
         IN [err |-> IF cur \in {ZIP_SUBPATH_NONE, ZIP_SUBPATH_DIR_ROOT, ZIP_SUBPATH_INVALID}
                     THEN "FSEntryNotFoundError"
                     ELSE NoError,
             zst |-> cur]

\* the checks on the source: the error raised and zstsrc
CheckSource(d, csrc) ==
    IF Len(csrc) = 1
    THEN [err |-> IF lexists(d, FileOf(csrc)) THEN NoError ELSE "FSEntryNotFoundError",
          zst |-> -1]
    ELSE LET cur == zip_check_subpath(open_archive_path(d, csrc, "r"), LastSeg(csrc))
         IN [err |-> IF cur \in {ZIP_SUBPATH_NONE, ZIP_SUBPATH_DIR_ROOT}
                     THEN "FSEntryNotFoundError"
                     ELSE IF cur = ZIP_SUBPATH_INVALID THEN "FSBadParentError"
                     ELSE NoError,
             zst |-> cur]

\* a variant of the checks on the target that does not check again inside a
\* directory of an archive
CheckTarget_NoRecheck(d, csrc, cdst) ==
    IF Len(cdst) = 1
    THEN LET inside == <<PathJoin(FileOf(cdst), Basename(LastSeg(csrc)))>>
         IN IF ~lexists(d, FileOf(cdst)) THEN [err |-> NoError, cdst |-> cdst, zst |-> -1]
            ELSE IF ~isdir(d, FileOf(cdst))
                 THEN [err |-> "FSEntryExistsError", cdst |-> cdst, zst |-> -1]
            ELSE IF lexists(d, FileOf(inside))
                 THEN [err |-> "FSEntryExistsError", cdst |-> inside, zst |-> -1]
            ELSE [err |-> NoError, cdst |-> inside, zst |-> -1]
    ELSE LET zh == open_archive_path(d, cdst, "r")
             cur == zip_check_subpath(zh, LastSeg(cdst))
             inside == [cdst EXCEPT ![Len(cdst)] =
                           LastSeg(cdst)
                           \o (IF LastSeg(cdst) # <<>> THEN <<SLASH>> ELSE <<>>)
                           \o Basename(LastSeg(csrc))]
         IN IF cur = ZIP_SUBPATH_INVALID
            THEN [err |-> "FSBadParentError", cdst |-> cdst, zst |-> cur]
            ELSE IF cur = ZIP_SUBPATH_FILE
            THEN [err |-> "FSFileExistsError", cdst |-> cdst, zst |-> cur]
            ELSE IF cur \in DirStates
            THEN [err |-> NoError, cdst |-> inside, zst |-> cur]
            ELSE [err |-> NoError, cdst |-> cdst, zst |-> cur]

\* the checks on the target: the error raised, the possibly changed cdst, zstdst
CheckTarget(d, csrc, cdst) ==
    IF Len(cdst) = 1
    THEN LET inside == <<PathJoin(FileOf(cdst), Basename(LastSeg(csrc)))>>
         IN IF ~lexists(d, FileOf(cdst)) THEN [err |-> NoError, cdst |-> cdst, zst |-> -1]
            ELSE IF ~isdir(d, FileOf(cdst))
                 THEN [err |-> "FSEntryExistsError", cdst |-> cdst, zst |-> -1]
            ELSE IF lexists(d, FileOf(inside))
                 THEN [err |-> "FSEntryExistsError", cdst |-> inside, zst |-> -1]
            ELSE [err |-> NoError, cdst |-> inside, zst |-> -1]
    ELSE LET zh == open_archive_path(d, cdst, "r")
             cur == zip_check_subpath(zh, LastSeg(cdst))
             inside == [cdst EXCEPT ![Len(cdst)] =
                           LastSeg(cdst)
                           \o (IF LastSeg(cdst) # <<>> THEN <<SLASH>> ELSE <<>>)
                           \o Basename(LastSeg(csrc))]
         IN IF cur = ZIP_SUBPATH_INVALID
            THEN [err |-> "FSBadParentError", cdst |-> cdst, zst |-> cur]
            ELSE IF cur = ZIP_SUBPATH_FILE
            THEN [err |-> "FSFileExistsError", cdst |-> cdst, zst |-> cur]
            ELSE IF cur \in DirStates
            THEN IF zip_check_subpath(zh, LastSeg(inside))
                      \in {ZIP_SUBPATH_FILE, ZIP_SUBPATH_DIR, ZIP_SUBPATH_DIR_IMPLICIT}
                 THEN [err |-> "FSEntryExistsError", cdst |-> inside, zst |-> cur]
                 ELSE [err |-> NoError, cdst |-> inside, zst |-> cur]
            ELSE [err |-> NoError, cdst |-> cdst, zst |-> cur]

\* _check_move_copy(csrc, cdst): the source is checked first; errpath is the
\* path that the error carries.  An archive that does not open raises out of
\* _check_move_copy; move and copy map the exception, with their cdst
CheckedBoth(csrc, cdst, esrc, s, edst, t) ==
    LET raised == [err |-> "", errpath |-> cdst, cdst |-> cdst, zstsrc |-> -1, zstdst |-> -1]
    IN IF Len(csrc) > 1 /\ esrc # ""
       THEN [raised EXCEPT !.err = map_exc(esrc)]
       ELSE IF s.err # NoError
       THEN [err |-> s.err, errpath |-> csrc, cdst |-> cdst, zstsrc |-> s.zst, zstdst |-> -1]
       ELSE IF Len(cdst) > 1 /\ edst # ""
       THEN [raised EXCEPT !.err = map_exc(edst)]
       ELSE [err |-> t.err, errpath |-> t.cdst, cdst |-> t.cdst,
             zstsrc |-> s.zst, zstdst |-> t.zst]

check_move_copy(d, csrc, cdst) ==
    CheckedBoth(csrc, cdst, ArchiveError(d, csrc), CheckSource(d, csrc),
                ArchiveError(d, cdst), CheckTarget(d, csrc, cdst))

\* str.lower() on the characters of the model
Lower(str) == [i \in 1..Len(str) |-> IF str[i] = "A" THEN "a" ELSE str[i]]

\* a variant of _dstinsrc that takes only a longer path for one inside src
dstinsrc_Strict(d, src, dst) ==
    /\ StartsWith(Lower(dst), Lower(src) \o <<SLASH>>)
    /\ lexists(d, src)
    /\ SubSeq(dst, 1, Len(src)) = src

\* _dstinsrc(src, dst) for absolute, normalized paths: samefile compares src
\* with the leading len(src) characters of dst and fails for a missing file
dstinsrc(d, src, dst) ==
    /\ StartsWith(Lower(dst) \o <<SLASH>>, Lower(src) \o <<SLASH>>)
    /\ lexists(d, src)
    /\ SubSeq(dst, 1, Len(src)) = src

\* a variant of the loop that compares the segments without the appended '/'
RECURSIVE CheckMoveLoop_NoSlash(_, _, _)
CheckMoveLoop_NoSlash(csrc, cdst, i) ==
    IF i > Len(cdst) THEN FALSE
    ELSE IF i > Len(csrc) THEN FALSE
    ELSE LET dst == cdst[i]
             src == csrc[i]
         IN IF ~StartsWith(dst, src) THEN TRUE
            ELSE IF Len(dst) > Len(src) THEN FALSE
            ELSE CheckMoveLoop_NoSlash(csrc, cdst, i + 1)

\* the loop "for i in range(1, len(cdst))" of _check_move, from index i on
\* (indices count from 1 here)
RECURSIVE CheckMoveLoop(_, _, _)
CheckMoveLoop(csrc, cdst, i) ==
    IF i > Len(cdst) THEN FALSE
    ELSE IF i > Len(csrc) THEN FALSE
    ELSE LET dst == cdst[i] \o <<SLASH>>
             src == csrc[i] \o <<SLASH>>
         IN IF ~StartsWith(dst, src) THEN TRUE
            ELSE IF Len(dst) > Len(src) THEN FALSE
            ELSE CheckMoveLoop(csrc, cdst, i + 1)

\* _check_move(csrc, cdst): TRUE when the move is allowed
check_move(d, csrc, cdst) ==
    IF ~dstinsrc(d, FileOf(csrc), FileOf(cdst)) THEN TRUE
    ELSE CheckMoveLoop(csrc, cdst, 2)

(***************************************************************************)
(* move and copy (archive to archive)                                      *)
(***************************************************************************)
\* the entries of zh named base or lying under base + '/', in directory order
RECURSIVE SelectUnder(_, _, _)
SelectUnder(zh, base, i) ==
    IF i > Len(zh.filelist) THEN <<>>
    ELSE LET name == zh.infos[zh.filelist[i]].filename
         IN (IF name = base \/ StartsWith(name, base \o <<SLASH>>)
             THEN <<zh.filelist[i]>> ELSE <<>>)
            \o SelectUnder(zh, base, i + 1)

\* new_subpaths: cdst[-1] + zinfo.filename[cut:]
NewSubpaths(zh, zinfos, csrc, cdst) ==
    [i \in 1..Len(zinfos) |->
        LastSeg(cdst) \o SubSeq(zh.infos[zinfos[i]].filename,
                                Len(LastSeg(csrc)) + 1,
                                Len(zh.infos[zinfos[i]].filename))]

\* infos_to_remove: the entries of zh2 that getinfo finds under the new names
InfosToRemove(zh2, new_subpaths) ==
    {getinfo(zh2, new_subpaths[i]) : i \in 1..Len(new_subpaths)} \ {0}

\* a variant of the loop that writes every entry stored
RECURSIVE TransferLoop_Stored(_, _, _, _, _)
TransferLoop_Stored(zh, zh2, zinfos, new_subpaths, i) ==
    IF i > Len(zinfos) THEN [ok |-> TRUE, zh |-> zh, zh2 |-> zh2]
    ELSE LET k == zinfos[i]
             renamed == [zh EXCEPT !.infos[k].filename = new_subpaths[i]]
             got == ZipRead(renamed, k)
             written == ZipWritestr(zh2, renamed.infos[k], got.data, "ZIP_STORED")
             shared == written.infos[written.filelist[Len(written.filelist)]]
         IN IF ~got.ok THEN [ok |-> FALSE, zh |-> renamed, zh2 |-> zh2]
            ELSE TransferLoop_Stored([renamed EXCEPT !.infos[k] = shared], written,
                                     zinfos, new_subpaths, i + 1)

\* the loop "for i, zinfo in enumerate(zinfos)": the ZipInfo is renamed, its
\* data is read from zh and written to zh2 under the entry's compression type;
\* the ZipInfo object is shared, so zh sees what writestr sets in it
RECURSIVE TransferLoop(_, _, _, _, _)
TransferLoop(zh, zh2, zinfos, new_subpaths, i) ==
    IF i > Len(zinfos) THEN [ok |-> TRUE, zh |-> zh, zh2 |-> zh2]
    ELSE LET k == zinfos[i]
             renamed == [zh EXCEPT !.infos[k].filename = new_subpaths[i]]
             got == ZipRead(renamed, k)
             written == ZipWritestr(zh2, renamed.infos[k], got.data,
                                    renamed.infos[k].compress_type)
             shared == written.infos[written.filelist[Len(written.filelist)]]
         IN IF ~got.ok THEN [ok |-> FALSE, zh |-> renamed, zh2 |-> zh2]
            ELSE TransferLoop([renamed EXCEPT !.infos[k] = shared], written,
                              zinfos, new_subpaths, i + 1)

\* the with-block shared by move and copy: the entries under csrc[-1] are
\* written to the target archive under the new names
Transferred(d, cdst, zh, zinfos, done) ==
    [ok |-> done.ok,
     disk |-> IF done.ok THEN close_archive_path(d, cdst, done.zh2)
              ELSE leave_archive_path(d, cdst, done.zh2),
     znames |-> {zh.infos[zinfos[i]].filename : i \in 1..Len(zinfos)}]

TransferOpened(d, csrc, cdst, zh, zh2) ==
    LET zinfos == SelectUnder(zh, LastSeg(csrc), 1)
        new_subpaths == NewSubpaths(zh, zinfos, csrc, cdst)
    IN Transferred(d, cdst, zh, zinfos,
                   TransferLoop(zh,
                                zip_remove_members(zh2, InfosToRemove(zh2, new_subpaths),
                                                   TRUE, DefaultBufferSize),
                                zinfos, new_subpaths, 1))

Transfer(d, csrc, cdst) ==
    TransferOpened(d, csrc, cdst, open_archive_path(d, csrc, "r"),
                   open_archive_path(d, cdst, "a"))

EntriesNamed(zh, znames) ==
    {zh.filelist[i] : i \in {j \in 1..Len(zh.filelist) :
        zh.infos[zh.filelist[j]].filename \in znames}}

RemoveNamedIn(d, csrc, zh, znames) ==
    close_archive_path(d, csrc,
        zip_remove_members(zh, EntriesNamed(zh, znames), TRUE, DefaultBufferSize))

\* the second with-block of move: the entries named in znames are removed
RemoveNamed(d, csrc, znames) ==
    RemoveNamedIn(d, csrc, open_archive_path(d, csrc, "a"), znames)

(***************************************************************************)
(* zip_compress and zip_extract                                            *)
(***************************************************************************)
\* the elements of the sequence that lie in the set, in the sequence's order
RECURSIVE InOrder(_, _)
InOrder(order, S) ==
    IF order = <<>> THEN <<>>
    ELSE (IF Head(order) \in S THEN <<Head(order)>> ELSE <<>>) \o InOrder(Tail(order), S)

\* st_mode of the files and of the directories of the disk (0o100644 and
\* 0o40755)
FileMode == 33188
DirMode == 16877

\* zipfile.ZipInfo.from_file(src, arcname): the time is the local time of the
\* file's modification time, external_attr holds st_mode and, for a
\* directory, the directory flag
ZipInfoFromFile(d, src, arcname) ==
    [ZipInfo(arcname, LocalTime(Sec(d[src].mtime))) EXCEPT
        !.external_attr = IF isdir(d, src) THEN WithFlag(Shifted16(DirMode), DosDirFlag)
                          ELSE Shifted16(FileMode)]

\* mimetypes.guess_type(dst)[0] is text/plain for the extension .txt, which
\* is compressible; a name without extension has no type
CompressTypeFor(arcname) ==
    IF Len(arcname) >= 4 /\ SubSeq(arcname, Len(arcname) - 3, Len(arcname)) = <<".", "t", "x", "t">>
    THEN "ZIP_DEFLATED" ELSE "ZIP_STORED"

\* a file of the disk that open() refuses to read (PermissionError)
LockedNode(data, mtime) == [kind |-> "file", data |-> data, mtime |-> mtime, locked |-> TRUE]
Locked(node) == "locked" \in DOMAIN node

\* zh.write(src, dst, **zip_compression_params(...)): the source is opened
\* before the entry is begun; acc holds the handle and the errors list
ZipWrite(acc, d, src, arcname) ==
    IF Locked(d[src])
    THEN [acc EXCEPT !.errors = Append(@, <<src, arcname, "PermissionError">>)]
    ELSE [acc EXCEPT !.zh = ZipWritestr(@, ZipInfoFromFile(d, src, arcname), d[src].data,
                                        CompressTypeFor(arcname))]

\* the loops "for dir in dirs" and "for file in files" of zip_compress
RECURSIVE WriteDirs(_, _, _, _, _)
WriteDirs(acc, d, dirs, filename, subpath) ==
    IF dirs = <<>> THEN acc
    ELSE LET src == Head(dirs)
             dst == subpath \o SubSeq(src, Len(filename) + 2, Len(src)) \o <<SLASH>>
         IN WriteDirs([acc EXCEPT !.zh = ZipWritestr(@, ZipInfoFromFile(d, src, dst), <<>>,
                                                     "ZIP_STORED")],
                      d, Tail(dirs), filename, subpath)

RECURSIVE WriteFiles(_, _, _, _, _)
WriteFiles(acc, d, files, filename, subpath) ==
    IF files = <<>> THEN acc
    ELSE LET src == Head(files)
             dst == subpath \o SubSeq(src, Len(filename) + 2, Len(src))
         IN WriteFiles(ZipWrite(acc, d, src, dst), d, Tail(files), filename, subpath)

\* os.walk(filename), top-down: the directories found in root are visited in
\* the order in which root lists them; order is the order of the listing
RECURSIVE WalkDir(_, _, _, _, _, _)
RECURSIVE WalkInto(_, _, _, _, _, _)
WalkDir(acc, d, root, filename, subpath, order) ==
    LET listed == InOrder(order, Children(d, root))
        dirs == InOrder(listed, {q \in Children(d, root) : isdir(d, q)})
        files == InOrder(listed, {q \in Children(d, root) : ~isdir(d, q)})
    IN WalkInto(WriteFiles(WriteDirs(acc, d, dirs, filename, subpath),
                           d, files, filename, subpath),
                d, dirs, filename, subpath, order)

WalkInto(acc, d, dirs, filename, subpath, order) ==
    IF dirs = <<>> THEN acc
    ELSE WalkInto(WalkDir(acc, d, Head(dirs), filename, subpath, order),
                  d, Tail(dirs), filename, subpath, order)

\* what zip_compress hands back: the handle, the errors list and the
\* exception raised: shutil.Error(errors) when the list is not empty
Compressed(acc) ==
    [zh |-> acc.zh, errors |-> acc.errors,
     raised |-> IF acc.errors # <<>> THEN "shutil.Error" ELSE ""]

\* a variant of zip_compress that writes the entry of the top directory last
zip_compress_TopLast(zh, d, filename, subpath, order) ==
    IF isdir(d, filename)
    THEN LET dst == IF subpath # <<>> THEN subpath \o <<SLASH>> ELSE <<>>
             walked == WalkDir([zh |-> zh, errors |-> <<>>], d, filename, filename, dst, order)
         IN IF dst # <<>>
            THEN Compressed([walked EXCEPT !.zh =
                    ZipWritestr(@, ZipInfoFromFile(d, filename, dst), <<>>, "ZIP_STORED")])
            ELSE Compressed(walked)
    ELSE IF Locked(d[filename])
    THEN [zh |-> zh, errors |-> <<>>, raised |-> "PermissionError"]
    ELSE Compressed(ZipWrite([zh |-> zh, errors |-> <<>>], d, filename, subpath))

\* a variant of zip_compress that stops at the first child that fails
zip_compress_StopAtError(zh, d, filename, subpath, order) ==
    IF isdir(d, filename)
    THEN LET dst == IF subpath # <<>> THEN subpath \o <<SLASH>> ELSE <<>>
             top == IF dst # <<>>
                    THEN ZipWritestr(zh, ZipInfoFromFile(d, filename, dst), <<>>, "ZIP_STORED")
                    ELSE zh
             walked == WalkDir([zh |-> top, errors |-> <<>>], d, filename, filename, dst,
                               order)
         IN IF walked.errors # <<>>
            THEN [zh |-> top, errors |-> walked.errors, raised |-> "shutil.Error"]
            ELSE Compressed(walked)
    ELSE IF Locked(d[filename])
    THEN [zh |-> zh, errors |-> <<>>, raised |-> "PermissionError"]
    ELSE Compressed(ZipWrite([zh |-> zh, errors |-> <<>>], d, filename, subpath))

\* zip_compress(zip, filename, subpath) on an open handle
zip_compress(zh, d, filename, subpath, order) ==
    IF isdir(d, filename)
    THEN LET dst == IF subpath # <<>> THEN subpath \o <<SLASH>> ELSE <<>>
             top == IF dst # <<>>
                    THEN ZipWritestr(zh, ZipInfoFromFile(d, filename, dst), <<>>, "ZIP_STORED")
                    ELSE zh
         IN Compressed(WalkDir([zh |-> top, errors |-> <<>>], d, filename, filename, dst,
                               order))
    ELSE IF Locked(d[filename])
    THEN [zh |-> zh, errors |-> <<>>, raised |-> "PermissionError"]
    ELSE Compressed(ZipWrite([zh |-> zh, errors |-> <<>>], d, filename, subpath))

\* the entries that zip_extract extracts
ExtractEntries(zh, subpath) ==
    IF subpath = <<>> THEN namelist(zh)
    ELSE IF getinfo(zh, subpath) # 0 THEN <<subpath>>
    ELSE LET names == namelist(zh)
         IN InOrder(names, {n \in NameKeys(zh) : StartsWith(n, subpath \o <<SLASH>>)})

\* zh.extractall(tempdir, entries) into the empty directory t, as of entry i:
\* a directory entry makes the directory, a file entry makes the directories
\* above it and writes the data; raw is the exception raised, "" if none
RECURSIVE ExtractAll(_, _, _, _, _)
ExtractAll(zh, t, entries, i, now) ==
    IF i > Len(entries) THEN [raw |-> "", disk |-> t]
    ELSE LET k == getinfo(zh, entries[i])
             target == RStrip(entries[i])
             isdirentry == entries[i][Len(entries[i])] = SLASH
             up == makedirs(t, IF isdirentry THEN target ELSE Dirname(target), now)
             got == ZipRead(zh, k)
         IN IF ~up.ok THEN [raw |-> "FileExistsError", disk |-> t]
            ELSE IF isdirentry THEN ExtractAll(zh, up.disk, entries, i + 1, now)
            ELSE IF isdir(up.disk, target) THEN [raw |-> "IsADirectoryError", disk |-> up.disk]
            ELSE IF ~got.ok THEN [raw |-> "BadZipFile", disk |-> up.disk]
            ELSE ExtractAll(zh, Create(up.disk, target, FileNode(got.data, now), now),
                            entries, i + 1, now)

\* the loop "for entry in entries" of zip_extract: os.utime(file, (ts, ts))
RECURSIVE RecoverTimes(_, _, _, _, _)
RecoverTimes(zh, t, entries, i, later) ==
    IF i > Len(entries) THEN t
    ELSE LET ts == zip_timestamp(zh.infos[getinfo(zh, entries[i])].date_time, later)
         IN RecoverTimes(zh,
                [t EXCEPT ![RStrip(entries[i])].mtime = ts * TicksPerSecond],
                entries, i + 1, later)

\* shutil.move(os.path.join(tempdir, subpath), dst): the tree t, extracted
\* into the temporary directory, appears at dst
MoveIn(d, t, subpath, dst, now) ==
    LET top == IF subpath = <<>> THEN DirNode(now) ELSE t[subpath]
        from == IF subpath = <<>> THEN <<>> ELSE subpath \o <<SLASH>>
        tree == {q \in DOMAIN t : StartsWith(q, from)} \ {subpath}
        placed == Create(d, dst, top, now)
        to == dst \o <<SLASH>>
    IN [p \in (DOMAIN placed) \cup {Rerooted(q, from, to) : q \in tree} |->
           IF \E q \in tree : p = Rerooted(q, from, to)
           THEN t[CHOOSE q \in tree : p = Rerooted(q, from, to)]
           ELSE placed[p]]

\* zip_extract(zip, dst, subpath) on an open handle
zip_extract(zh, d, dst, subpath, now, later) ==
    LET entries == ExtractEntries(zh, subpath)
        empty == [q \in {} |-> DirNode(now)]
        out == ExtractAll(zh, empty, entries, 1, now)
        timed == RecoverTimes(zh, out.disk, entries, 1, later)
    IN IF lexists(d, dst) THEN [raw |-> "FileExistsError", disk |-> d]
       ELSE IF out.raw # "" THEN [raw |-> out.raw, disk |-> d]
       ELSE IF subpath # <<>> /\ subpath \notin DOMAIN timed
       THEN [raw |-> "FileNotFoundError", disk |-> d]
       ELSE [raw |-> "", disk |-> MoveIn(d, timed, subpath, dst, now)]

\* shutil.move(src, dst) for a dst that does not exist: the tree is renamed
PlainMove(d, src, dst, now) ==
    LET there == copytree(d, src, dst, now)
        gone == {src} \cup Below(d, src)
    IN [p \in (DOMAIN there) \ gone |->
           IF p = Dirname(src) THEN [there[p] EXCEPT !.mtime = now] ELSE there[p]]

\* the archive to archive branch of move once the entries are transferred
MoveTransferred(moved, csrc, cdst) ==
    IF ~moved.ok THEN Outcome(moved.disk, "FSBadZipFileError", cdst)
    ELSE Outcome(RemoveNamed(moved.disk, csrc, moved.znames), NoError, cdst)

\* the plain branch of move once the parent of the target is made
MoveMade(d, made, csrc, cdst, now) ==
    IF ~made.ok THEN Outcome(d, "FSBadParentError", cdst)
    ELSE Outcome(PlainMove(made.disk, FileOf(csrc), FileOf(cdst), now), NoError, cdst)

\* move after check_move_copy has returned chk
MoveChecked(d, csrc, chk, now) ==
    IF chk.err # NoError THEN Outcome(d, chk.err, chk.errpath)
    ELSE IF ~check_move(d, csrc, chk.cdst)
    THEN Outcome(d, "FSMoveInsideError", chk.cdst)
    ELSE IF (Len(csrc) = 1) # (Len(chk.cdst) = 1)
    THEN Outcome(d, "FSMoveAcrossZipError", chk.cdst)
    ELSE IF Len(csrc) = 1
    THEN MoveMade(d, makedirs(d, Dirname(FileOf(chk.cdst)), now), csrc, chk.cdst, now)
    ELSE MoveTransferred(Transfer(d, csrc, chk.cdst), csrc, chk.cdst)

\* move(csrc, cdst); now is the clock of the call
move(d, csrc, cdst0, now) ==
    MoveChecked(d, csrc, check_move_copy(d, csrc, cdst0), now)

\* the archive to archive branch of copy once the entries are transferred
CopyTransferred(copied, cdst) ==
    IF ~copied.ok THEN Outcome(copied.disk, "FSBadZipFileError", cdst)
    ELSE Outcome(copied.disk, NoError, cdst)

\* the plain to plain branch of copy once the parent of the target is made
CopyMade(d, made, csrc, cdst, now) ==
    IF ~made.ok THEN Outcome(d, "FSBadParentError", cdst)
    ELSE Outcome(copytree(made.disk, FileOf(csrc), FileOf(cdst), now), NoError, cdst)

\* the plain to archive branch of copy once zip_compress has run:
\* shutil.Error is kept until the with-block is left, so that the
\* write-back runs; any other exception leaves the block at once
CopyCompressed(d, compressed, cdst) ==
    IF compressed.raised = "shutil.Error"
    THEN Outcome(close_archive_path(d, cdst, compressed.zh), "FSPartialError", cdst)
    ELSE IF compressed.raised # ""
    THEN Outcome(leave_archive_path(d, cdst, compressed.zh),
                 map_exc(compressed.raised), cdst)
    ELSE Outcome(close_archive_path(d, cdst, compressed.zh), NoError, cdst)

\* the archive to plain branch of copy once zip_extract has run
CopyExtracted(made, extracted, cdst) ==
    IF extracted.raw # "" THEN Outcome(made.disk, map_exc(extracted.raw), cdst)
    ELSE Outcome(extracted.disk, NoError, cdst)

\* the archive to plain branch of copy once the parent of the target is made
CopyExtract(d, made, csrc, cdst, env) ==
    IF ~made.ok THEN Outcome(d, "FSBadParentError", cdst)
    ELSE CopyExtracted(made,
                       zip_extract(open_archive_path(d, csrc, "r"), made.disk,
                                   FileOf(cdst), LastSeg(csrc), env.now, env.later),
                       cdst)

\* copy after check_move_copy has returned chk
CopyChecked(d, csrc, chk, env) ==
    IF chk.err # NoError THEN Outcome(d, chk.err, chk.errpath)
    ELSE IF Len(csrc) = 1 /\ Len(chk.cdst) = 1
    THEN CopyMade(d, makedirs(d, Dirname(FileOf(chk.cdst)), env.now), csrc, chk.cdst,
                  env.now)
    ELSE IF Len(csrc) = 1
    THEN CopyCompressed(d, zip_compress(open_archive_path(d, chk.cdst, "a"), d,
                                        FileOf(csrc), LastSeg(chk.cdst), env.order),
                        chk.cdst)
    ELSE IF Len(chk.cdst) = 1
    THEN CopyExtract(d, makedirs(d, Dirname(FileOf(chk.cdst)), env.now), csrc,
                     chk.cdst, env)
    ELSE CopyTransferred(Transfer(d, csrc, chk.cdst), chk.cdst)

\* copy(csrc, cdst); env holds what the call finds in its environment: now
\* (the clock), order (the order in which directories list their entries) and
\* later (how mktime reads a local time that the clock shows twice)
copy(d, csrc, cdst0, env) ==
    CopyChecked(d, csrc, check_move_copy(d, csrc, cdst0), env)

(***************************************************************************)
(* Archive files used as inputs: the entries are laid out one after the    *)
(* other, each as a local header cell followed by its data cells.          *)
(***************************************************************************)
\* an entry as written by a ZIP tool: name and data
Entry(name, data) == [filename |-> name, data |-> data]

RECURSIVE LayOut(_, _)
LayOut(entries, fp) ==
    IF entries = <<>> THEN [fp |-> fp, dir |-> <<>>]
    ELSE LET e == Head(entries)
             rest == LayOut(Tail(entries), fp \o <<HeaderCell(e.filename)>> \o e.data)
             zinfo == [filename |-> e.filename,
                       orig_filename |-> e.filename,
                       header_offset |-> Len(fp),
                       file_size |-> Len(e.data),
                       compress_type |-> "ZIP_STORED",
                       date_time |-> 0,
                       external_attr |-> <<0, 0>>]
         IN [fp |-> rest.fp, dir |-> <<zinfo>> \o rest.dir]

\* the archive file holding the entries, in this order
MkFile(entries) == LayOut(entries, <<>>)

\* a set as a sequence, in some fixed order
RECURSIVE SetToSeq(_)
SetToSeq(S) ==
    IF S = {} THEN <<>>
    ELSE LET x == CHOOSE y \in S : TRUE IN <<x>> \o SetToSeq(S \ {x})

\* the subsets of S with at most n elements
RECURSIVE SubsetsUpTo(_, _)
SubsetsUpTo(S, n) ==
    IF n = 0 THEN {{}}
    ELSE LET smaller == SubsetsUpTo(S, n - 1)
         IN smaller \cup {T \cup {x} : T \in smaller, x \in S}

\* the path of the archive file on disk
ArchiveA == <<"A">>

\* the entry names of the file, as a set
NamesOf(file) == {file.dir[i].filename : i \in 1..Len(file.dir)}

(***************************************************************************)
(* CPath: resolve, _resolve_add_subpath, _resolve_tidy_subpath, __str__    *)
(***************************************************************************)
BANG == "!"
DOT == "."
DOTDOT == <<DOT, DOT>>

\* re.finditer(r'!/', s): the positions of the '!' of the matches from i on
RECURSIVE FindBangSlash(_, _)
FindBangSlash(s, i) ==
    IF i >= Len(s) THEN <<>>
    ELSE IF s[i] = BANG /\ s[i + 1] = SLASH THEN <<i>> \o FindBangSlash(s, i + 2)
    ELSE FindBangSlash(s, i + 1)

\* the loop of _resolve_tidy_subpath over the components
RECURSIVE TidyComps(_, _)
TidyComps(comps, new_comps) ==
    IF comps = <<>> THEN new_comps
    ELSE LET comp == Head(comps)
         IN IF comp = <<>> \/ comp = <<DOT>> THEN TidyComps(Tail(comps), new_comps)
            ELSE IF comp = DOTDOT
            THEN TidyComps(Tail(comps),
                           IF new_comps # <<>>
                           THEN SubSeq(new_comps, 1, Len(new_comps) - 1) ELSE new_comps)
            ELSE TidyComps(Tail(comps), Append(new_comps, comp))

\* CPath._resolve_tidy_subpath(path, striproot)
resolve_tidy_subpath(path, striproot) ==
    (IF StartsWith(path, <<SLASH>>) /\ ~striproot THEN <<SLASH>> ELSE <<>>)
        \o Join(TidyComps(Split(path), <<>>))

\* the loop of os.path.normpath over the components
RECURSIVE NormComps(_, _, _)
NormComps(comps, new_comps, initial_slashes) ==
    IF comps = <<>> THEN new_comps
    ELSE LET comp == Head(comps)
         IN IF comp = <<>> \/ comp = <<DOT>>
            THEN NormComps(Tail(comps), new_comps, initial_slashes)
            ELSE IF \/ comp # DOTDOT
                    \/ (initial_slashes = 0 /\ new_comps = <<>>)
                    \/ (new_comps # <<>> /\ new_comps[Len(new_comps)] = DOTDOT)
            THEN NormComps(Tail(comps), Append(new_comps, comp), initial_slashes)
            ELSE NormComps(Tail(comps),
                           IF new_comps # <<>>
                           THEN SubSeq(new_comps, 1, Len(new_comps) - 1) ELSE new_comps,
                           initial_slashes)

\* os.path.normpath(path)
normpath(path) ==
    LET initial_slashes ==
            IF ~StartsWith(path, <<SLASH>>) THEN 0
            ELSE IF StartsWith(path, <<SLASH, SLASH>>) /\ ~StartsWith(path, <<SLASH, SLASH, SLASH>>)
            THEN 2 ELSE 1
        joined == [i \in 1..initial_slashes |-> SLASH]
                      \o Join(NormComps(Split(path), <<>>, initial_slashes))
    IN IF joined = <<>> THEN <<DOT>> ELSE joined

\* the bytes of an archive held as an entry of another archive: a cell for
\* each entry name, then the end record
ZipBytes(names) == [i \in 1..Len(names) |-> <<"E">> \o names[i]] \o <<<<"Z">>>>

\* the archive that the bytes hold
ParseZip(cells) == MkFile([i \in 1..(Len(cells) - 1) |-> Entry(Tail(cells[i]), <<>>)])

\* what zipfile.ZipFile(archivefile, 'r') raises in resolve, "" when it opens;
\* '.' and a chain of '..' are directories, a missing parent is reported as
\* FileNotFoundError or NotADirectoryError, which resolve treats alike
ResolveOpenError(d, archivefile) ==
    IF \A i \in 1..Len(Split(archivefile)) : Split(archivefile)[i] \in {<<DOT>>, DOTDOT}
    THEN "IsADirectoryError"
    ELSE OpenError(d, archivefile)

\* a variant of _resolve_add_subpath that does not look for conflicting
\* entry names
RECURSIVE AddSubpath_NoConflict(_, _, _, _)
AddSubpath_NoConflict(paths, zh, subpath, j) ==
    IF j = 0
    THEN [raised |-> "", paths |-> Append(paths, resolve_tidy_subpath(subpath, TRUE))]
    ELSE LET m == FindBangSlash(subpath, 1)[j]
             archivepath == resolve_tidy_subpath(SubSeq(subpath, 1, m - 1), TRUE)
             k == getinfo(zh, archivepath)
             fh == ZipRead(zh, k)
             rest == SubSeq(subpath, m + 2, Len(subpath))
         IN IF k = 0 THEN AddSubpath_NoConflict(paths, zh, subpath, j - 1)
            ELSE IF ~fh.ok THEN [raised |-> "BadZipFile", paths |-> paths]
            ELSE IF ~IsZipBytes(fh.data) THEN AddSubpath_NoConflict(paths, zh, subpath, j - 1)
            ELSE AddSubpath_NoConflict(Append(paths, archivepath),
                                       ZipOpen(ParseZip(fh.data), "r"),
                                       rest, Len(FindBangSlash(rest, 1)))

\* CPath._resolve_add_subpath(paths, zh, subpath), from the j-th match down;
\* raised is the exception that escapes, "" if none
RECURSIVE AddSubpath(_, _, _, _)
AddSubpath(paths, zh, subpath, j) ==
    IF j = 0
    THEN [raised |-> "", paths |-> Append(paths, resolve_tidy_subpath(subpath, TRUE))]
    ELSE LET m == FindBangSlash(subpath, 1)[j]
             archivepath == resolve_tidy_subpath(SubSeq(subpath, 1, m - 1), TRUE)
             conflicting == archivepath \o <<BANG, SLASH>>
             k == getinfo(zh, archivepath)
             fh == ZipRead(zh, k)
             rest == SubSeq(subpath, m + 2, Len(subpath))
         IN IF \E i \in 1..Len(namelist(zh)) : StartsWith(namelist(zh)[i], conflicting)
            THEN [raised |-> "",
                  paths |-> Append(paths, resolve_tidy_subpath(subpath, TRUE))]
            ELSE IF k = 0 THEN AddSubpath(paths, zh, subpath, j - 1)
            ELSE IF ~fh.ok THEN [raised |-> "BadZipFile", paths |-> paths]
            ELSE IF ~IsZipBytes(fh.data) THEN AddSubpath(paths, zh, subpath, j - 1)
            ELSE AddSubpath(Append(paths, archivepath), ZipOpen(ParseZip(fh.data), "r"),
                            rest, Len(FindBangSlash(rest, 1)))

resolve_add_subpath(paths, zh, subpath) ==
    AddSubpath(paths, zh, subpath, Len(FindBangSlash(subpath, 1)))

\* CPath.resolve(plainpath) without resolver, from the j-th match down
RECURSIVE ResolveAt(_, _, _)
ResolveAt(d, plainpath, j) ==
    IF j = 0 THEN [raised |-> "", paths |-> <<normpath(plainpath)>>]
    ELSE LET m == FindBangSlash(plainpath, 1)[j]
             archivefile == normpath(SubSeq(plainpath, 1, m - 1))
             conflicting == archivefile \o <<BANG>>
             err == ResolveOpenError(d, archivefile)
         IN IF conflicting \in DOMAIN d
            THEN [raised |-> "", paths |-> <<normpath(plainpath)>>]
            ELSE IF err \in {"BadZipFile", "FileNotFoundError", "NotADirectoryError"}
            THEN ResolveAt(d, plainpath, j - 1)
            ELSE IF err # "" THEN [raised |-> err, paths |-> <<>>]
            ELSE resolve_add_subpath(<<archivefile>>, ZipOpen(d[archivefile], "r"),
                                     SubSeq(plainpath, m + 2, Len(plainpath)))

resolve(d, plainpath) == ResolveAt(d, plainpath, Len(FindBangSlash(plainpath, 1)))

\* a variant of CPath.__str__ that joins the segments with '/'
RECURSIVE CPathStr_Slash(_)
CPathStr_Slash(paths) ==
    IF paths = <<>> THEN <<>>
    ELSE IF Len(paths) = 1 THEN paths[1]
    ELSE paths[1] \o <<SLASH>> \o CPathStr_Slash(Tail(paths))

\* CPath.__str__: '!/'.join(self._path)
RECURSIVE CPathStr(_)
CPathStr(paths) ==
    IF paths = <<>> THEN <<>>
    ELSE IF Len(paths) = 1 THEN paths[1]
    ELSE paths[1] \o <<BANG, SLASH>> \o CPathStr(Tail(paths))

(***************************************************************************)
(* SpecClassify: zip_check_subpath applied to every archive with at most   *)
(* ClassifyMaxEntries entry names and every subpath, both over the         *)
(* alphabet {a, /} and of length at most ClassifyMaxLen.                   *)
(***************************************************************************)
ClassifyChars == {"a", SLASH}
ClassifyNames == StringsOver(ClassifyChars, 1, ClassifyMaxLen)
ClassifySubpaths == StringsOver(ClassifyChars, 0, ClassifyMaxLen)

InitClassify ==
    /\ \E names \in SubsetsUpTo(ClassifyNames, ClassifyMaxEntries) :
          disk = ArchiveA :> MkFile([i \in 1..Cardinality(names) |->
                                        Entry(SetToSeq(names)[i], <<<<"d">>>>)])
    /\ pre = disk
    /\ \E p \in ClassifySubpaths :
          calls = <<[op |-> "input", subpath |-> p, ret |-> -1]>>

\* cur = zip_check_subpath(zh, subpath) on the archive opened for reading
Classify ==
    /\ calls[1].op = "input"
    /\ calls' = <<[op |-> "zip_check_subpath",
                   subpath |-> calls[1].subpath,
                   ret |-> zip_check_subpath(ZipOpen(disk[ArchiveA], "r"),
                                            calls[1].subpath)]>>
    /\ UNCHANGED <<disk, pre>>

NextClassify == Classify

SpecClassify == InitClassify /\ [][NextClassify]_vars

\* the subpath with its trailing '/' characters removed, stated by position
Stripped(p) ==
    LET keep == {i \in 1..Len(p) : p[i] # SLASH}
        last == IF keep = {} THEN 0 ELSE CHOOSE i \in keep : \A j \in keep : j <= i
    IN SubSeq(p, 1, last)

\* the strict ancestor prefixes of q: what precedes each '/' of q
AncestorPrefixes(q) == {SubSeq(q, 1, k - 1) : k \in {i \in 1..Len(q) : q[i] = SLASH}}

\* the classification the documentation gives, over the set of entry names
ClassOf(names, p) ==
    LET q == Stripped(p)
    IN IF q = <<>> THEN ZIP_SUBPATH_DIR_ROOT
       ELSE IF AncestorPrefixes(q) \cap names # {} THEN ZIP_SUBPATH_INVALID
       ELSE IF q \in names THEN ZIP_SUBPATH_FILE
       ELSE IF (q \o <<SLASH>>) \in names THEN ZIP_SUBPATH_DIR
       ELSE IF \E n \in names : StartsWith(n, q \o <<SLASH>>) THEN ZIP_SUBPATH_DIR_IMPLICIT
       ELSE ZIP_SUBPATH_NONE

\* C1: zip_check_subpath returns root for the empty subpath, else invalid if a
\* strict ancestor prefix is an entry name, else file if the subpath is an entry
\* name, else explicit-dir if subpath + '/' is one, else implicit-dir if an entry
\* name starts with subpath + '/', else absent (trailing '/' stripped first).
C1_ClassifyPrecedence ==
    calls[1].op = "zip_check_subpath" =>
        calls[1].ret = ClassOf(NamesOf(disk[ArchiveA]), calls[1].subpath)

\* C1 witness: an archive holding 'a', 'a/' and 'a/a' has classified 'a/a' as
\* invalid; the precedence of the ancestor check over the file check acted.
C1_Witness ==
    /\ calls[1].op = "zip_check_subpath"
    /\ calls[1].subpath = <<"a", SLASH, "a">>
    /\ {<<"a">>, <<"a", SLASH, "a">>} \subseteq NamesOf(disk[ArchiveA])
    /\ calls[1].ret = ZIP_SUBPATH_INVALID


(***************************************************************************)
(* SpecSurgery: _zip_remove_members applied to every archive of at most    *)
(* SurgeryMaxEntries entries (names may repeat, data of one or two bytes,  *)
(* the directory in physical or in reverse order), every set of members    *)
(* and every buffer size up to SurgeryMaxBuffer; the archive is then       *)
(* closed.                                                                 *)
(***************************************************************************)
SurgeryNames == {<<"a">>, <<"b">>}
SurgeryDataLens == {1, 2}

\* the data of the i-th entry: len distinct bytes that no other entry holds
DataOf(i, len) == [j \in 1..len |-> <<"d", ToString(i), ToString(j)>>]

Reverse(seq) == [i \in 1..Len(seq) |-> seq[Len(seq) + 1 - i]]

InitSurgery ==
    /\ \E n \in 1..SurgeryMaxEntries :
       \E names \in [1..n -> SurgeryNames], lens \in [1..n -> SurgeryDataLens],
          reversed \in BOOLEAN, members \in SUBSET (1..n), buffer_size \in 1..SurgeryMaxBuffer :
          LET file == MkFile([i \in 1..n |-> Entry(names[i], DataOf(i, lens[i]))])
          IN /\ disk = ArchiveA :> [file EXCEPT !.dir = IF reversed THEN Reverse(@) ELSE @]
             /\ calls = <<[op |-> "input", members |-> members,
                           buffer_size |-> buffer_size]>>
    /\ pre = disk

\* with ZipFile(A, 'a') as zh: _zip_remove_members(zh, members, buffer_size=...);
\* the call keeps the handle as the function left it, the entries it moved
\* and the position of the stream
RemoveMembers ==
    /\ calls[1].op = "input"
    /\ LET zh == ZipOpen(disk[ArchiveA], "a")
           done == zip_remove_members(zh, calls[1].members, TRUE, calls[1].buffer_size)
       IN disk' = ArchiveA :> ZipClose(done, disk[ArchiveA])
    /\ LET zh == ZipOpen(disk[ArchiveA], "a")
           done == zip_remove_members(zh, calls[1].members, TRUE, calls[1].buffer_size)
       IN calls' = <<[op |-> "_zip_remove_members",
                      members |-> calls[1].members,
                      buffer_size |-> calls[1].buffer_size,
                      zh |-> done,
                      moved |-> MovedEntries(zh, calls[1].members, TRUE,
                                             calls[1].buffer_size),
                      position |-> SeekStartDir(done)]>>
    /\ UNCHANGED pre

NextSurgery == RemoveMembers

SpecSurgery == InitSurgery /\ [][NextSurgery]_vars

\* the elements of seq at the positions not in drop
RECURSIVE Without(_, _, _)
Without(seq, drop, i) ==
    IF i > Len(seq) THEN <<>>
    ELSE (IF i \in drop THEN <<>> ELSE <<seq[i]>>) \o Without(seq, drop, i + 1)

\* what reading every entry of the file gives, in directory order
Contents(file) ==
    LET zh == ZipOpen(file, "r")
    IN [i \in 1..Len(file.dir) |->
           [filename |-> file.dir[i].filename, read |-> ZipRead(zh, i)]]

AllReadable(file) == \A i \in 1..Len(file.dir) : Contents(file)[i].read.ok

\* C4: after _zip_remove_members has removed a non-empty set of entries and the
\* archive is closed, the surviving entries are the ones not removed, each is
\* readable and yields the bytes it held before, for every buffer size >= 1,
\* and the file is strictly shorter than before.
C4_SurvivorsIntact ==
    (calls[1].op = "_zip_remove_members" /\ calls[1].members # {}) =>
        /\ AllReadable(disk[ArchiveA])
        /\ Contents(disk[ArchiveA]) = Without(Contents(pre[ArchiveA]), calls[1].members, 1)
        /\ FileLength(disk[ArchiveA]) < FileLength(pre[ArchiveA])

\* C4 witness: the first entry (two cells) was removed with a buffer of one
\* byte, and the entry behind it (three cells) was moved over its own start.
C4_Witness ==
    /\ calls[1].op = "_zip_remove_members"
    /\ calls[1].members = {1}
    /\ calls[1].buffer_size = 1
    /\ Len(pre[ArchiveA].dir) = 2
    /\ pre[ArchiveA].dir[1].header_offset = 0
    /\ pre[ArchiveA].dir[1].file_size = 1
    /\ pre[ArchiveA].dir[2].file_size = 2
    /\ Len(disk[ArchiveA].dir) = 1
    /\ disk[ArchiveA].dir[1].header_offset = 0


\* the handle that _zip_remove_members was given
SurgeryHandle == ZipOpen(pre[ArchiveA], "a")

\* the last key of the list whose entry has the name, 0 if there is none
RECURSIVE LastNamed(_, _, _)
LastNamed(infos, filelist, name) ==
    IF filelist = <<>> THEN 0
    ELSE IF infos[filelist[Len(filelist)]].filename = name THEN filelist[Len(filelist)]
    ELSE LastNamed(infos, SubSeq(filelist, 1, Len(filelist) - 1), name)

\* the keys of the list that are not in drop, in the order of the list
Surviving(filelist, drop) == SelectSeq(filelist, LAMBDA k : k \notin drop)

\* C26: after _zip_remove_members has removed any set of entries, names
\* repeated or not, the handle lists the entries not removed in directory
\* order, NameToInfo has exactly their names as keys, and each name maps to
\* the last listed entry of that name.
C26_NameIndex ==
    calls[1].op = "_zip_remove_members" =>
        LET z == calls[1].zh
        IN /\ z.filelist = Surviving(SurgeryHandle.filelist, calls[1].members)
           /\ NameKeys(z) = {z.infos[z.filelist[i]].filename : i \in 1..Len(z.filelist)}
           /\ \A n \in NameKeys(z) : z.NameToInfo[n] = LastNamed(z.infos, z.filelist, n)

\* C26 witness: of three entries named 'a' the first of the directory was
\* removed, and the name maps to the third.
C26_Witness ==
    /\ calls[1].op = "_zip_remove_members"
    /\ Len(pre[ArchiveA].dir) = 3
    /\ \A i \in 1..3 : pre[ArchiveA].dir[i].filename = <<"a">>
    /\ calls[1].members = {1}
    /\ calls[1].zh.filelist = <<2, 3>>
    /\ calls[1].zh.NameToInfo[<<"a">>] = 3

\* the span of the i-th entry in offset order: up to the next header, or to
\* the central directory
SpanOf(zh, sorted, i) ==
    (IF i < Len(sorted) THEN zh.infos[sorted[i + 1]].header_offset ELSE zh.start_dir)
        - zh.infos[sorted[i]].header_offset

\* the sum of the spans of the removed entries among the first i - 1
RECURSIVE RemovedBefore(_, _, _, _)
RemovedBefore(zh, sorted, members, i) ==
    IF i <= 1 THEN 0
    ELSE RemovedBefore(zh, sorted, members, i - 1)
             + (IF sorted[i - 1] \in members THEN SpanOf(zh, sorted, i - 1) ELSE 0)

\* C27: after _zip_remove_members with physical removal, in header-offset
\* order: the offset of every surviving entry is its old offset less the
\* spans of the removed entries before it, and its span holds the bytes it
\* held; the entries before the first removed one were not moved, the others
\* were moved once each in that order; the spans of the survivors follow each
\* other without gap or overlap up to the central directory, whose start is
\* less by the spans of all removed entries; the stream is at that start.
C27_Offsets ==
    calls[1].op = "_zip_remove_members" =>
        LET zh == SurgeryHandle
            z == calls[1].zh
            members == calls[1].members
            sorted == SortByOffset(zh.infos, zh.filelist)
            at == [k \in 1..Len(sorted) |-> CHOOSE i \in 1..Len(sorted) : sorted[i] = k]
            left == Surviving(sorted, members)
            shift == [k \in 1..Len(sorted) |-> RemovedBefore(zh, sorted, members, at[k])]
        IN /\ \A k \in 1..Len(sorted) :
                 k \notin members =>
                    /\ z.infos[k].header_offset = zh.infos[k].header_offset - shift[k]
                    /\ ReadAt(z.fp, z.infos[k].header_offset, SpanOf(zh, sorted, at[k]))
                          = ReadAt(zh.fp, zh.infos[k].header_offset, SpanOf(zh, sorted, at[k]))
           /\ calls[1].moved = SelectSeq(left, LAMBDA k : shift[k] > 0)
           /\ SortByOffset(z.infos, z.filelist) = left
           /\ \A i \in 1..Len(left) :
                 z.infos[left[i]].header_offset + SpanOf(zh, sorted, at[left[i]])
                    = IF i < Len(left) THEN z.infos[left[i + 1]].header_offset
                      ELSE z.start_dir
           /\ z.start_dir = zh.start_dir - RemovedBefore(zh, sorted, members, Len(sorted) + 1)
           /\ calls[1].position = z.start_dir

\* C27 witness: of three entries the second in offset order was removed; the
\* first stayed where it was and was not moved, the third was moved down by
\* the span of the second.
C27_Witness ==
    /\ calls[1].op = "_zip_remove_members"
    /\ Len(pre[ArchiveA].dir) = 3
    /\ LET zh == SurgeryHandle
           sorted == SortByOffset(zh.infos, zh.filelist)
       IN /\ calls[1].members = {sorted[2]}
          /\ calls[1].moved = <<sorted[3]>>
          /\ calls[1].zh.infos[sorted[1]].header_offset = 0
          /\ calls[1].zh.infos[sorted[3]].header_offset
                = zh.infos[sorted[3]].header_offset - SpanOf(zh, sorted, 2)
          /\ SpanOf(zh, sorted, 2) > 0
          /\ calls[1].position = zh.start_dir - SpanOf(zh, sorted, 2)


(***************************************************************************)
(* Spec: one call of save, delete, move or copy on paths into one archive. *)
(* The archive is any sequence of at most MaxEntries entries with names of *)
(* EntryNames (names may repeat).  pre is the disk before the call, calls  *)
(* holds the call and what it raised.                                      *)
(***************************************************************************)
\* the subpaths that the calls address
Subpaths == {<<"a">>, <<"a", SLASH, "b">>, <<"a", "b">>, <<"b">>}

\* the entry names of the initial archives
EntryNames == {<<"a">>, <<"a", SLASH>>, <<"a", SLASH, "b">>, <<"a", SLASH, "b", SLASH>>,
               <<"a", "b">>, <<"a", "b", SLASH, "b">>, <<"b", SLASH>>}

\* the data of the i-th initial entry: a directory entry is empty
InitialData(name, i) ==
    IF name[Len(name)] = SLASH THEN <<>> ELSE DataOf(i, 1 + (i % 2))

\* what save is given
NewData == <<<<"n", "1">>, <<"n", "2">>>>
SourceKinds == {"bytes", "stream", "other"}

Init ==
    /\ \E n \in 0..MaxEntries : \E names \in [1..n -> EntryNames] :
          disk = ArchiveA :> MkFile([i \in 1..n |-> Entry(names[i], InitialData(names[i], i))])
    /\ pre = disk
    /\ calls = <<>>

CanCall == calls = <<>>

Returned(op, path, arg, out) ==
    /\ disk' = out.disk
    /\ pre' = disk
    /\ calls' = <<[op |-> op, path |-> path, arg |-> arg,
                   err |-> out.err, cpath |-> out.cpath]>>

Save ==
    /\ CanCall
    /\ \E p \in Subpaths, kind \in SourceKinds :
          LET cpath == <<ArchiveA, p>>
              src == [kind |-> kind, data |-> NewData]
          IN Returned("save", cpath, src, save(disk, cpath, src, Now))

\* delete is also given the root and a subpath that ends in a slash
DeletePaths == Subpaths \cup {<<>>, <<"a", SLASH>>}

Delete ==
    /\ CanCall
    /\ \E p \in DeletePaths :
          LET cpath == <<ArchiveA, p>>
          IN Returned("delete", cpath, <<>>, delete(disk, cpath))

Move ==
    /\ CanCall
    /\ \E s \in Subpaths, t \in Subpaths \cup {<<>>} :
          LET csrc == <<ArchiveA, s>>
              cdst == <<ArchiveA, t>>
          IN Returned("move", csrc, cdst, move(disk, csrc, cdst, Now))

Copy ==
    /\ CanCall
    /\ \E s \in Subpaths, t \in Subpaths \cup {<<>>} :
          LET csrc == <<ArchiveA, s>>
              cdst == <<ArchiveA, t>>
              env == [now |-> Now, order |-> <<>>, later |-> FALSE]
          IN Returned("copy", csrc, cdst, copy(disk, csrc, cdst, env))

\* the modes that mkdir is given: permission bits, a mode that holds the
\* directory type already (0o40755) and one with a bit above the 16 that
\* external_attr keeps (0o200777)
Modes == {0, 448, 493, 511, 16877, 66047}

Mkdir ==
    /\ CanCall
    /\ \E p \in Subpaths \cup {<<>>}, mode \in Modes, exist_ok \in BOOLEAN :
          LET cpath == <<ArchiveA, p>>
          IN Returned("mkdir", cpath, [mode |-> mode, exist_ok |-> exist_ok],
                      mkdir(disk, cpath, mode, exist_ok, Now))

Next == Save \/ Delete \/ Move \/ Copy \/ Mkdir

Spec == Init /\ [][Next]_vars


(***************************************************************************)
(* SpecSaveDelete: save on an archive as in Spec, followed by delete.      *)
(* pre stays the disk before the save; calls holds both calls.             *)
(***************************************************************************)
SaveFirst ==
    /\ calls = <<>>
    /\ \E p \in Subpaths, kind \in SourceKinds :
          LET cpath == <<ArchiveA, p>>
              src == [kind |-> kind, data |-> NewData]
              out == save(disk, cpath, src, Now)
          IN /\ disk' = out.disk
             /\ calls' = <<[op |-> "save", path |-> cpath, arg |-> src,
                            err |-> out.err, cpath |-> out.cpath]>>
    /\ UNCHANGED pre

DeleteNext ==
    /\ Len(calls) = 1
    /\ \E p \in Subpaths \cup {<<>>} :
          LET cpath == <<ArchiveA, p>>
              out == delete(disk, cpath)
          IN /\ disk' = out.disk
             /\ calls' = Append(calls, [op |-> "delete", path |-> cpath, arg |-> <<>>,
                                        err |-> out.err, cpath |-> out.cpath])
    /\ UNCHANGED pre

NextSaveDelete == SaveFirst \/ DeleteNext

SpecSaveDelete == Init /\ [][NextSaveDelete]_vars

(***************************************************************************)
(* What the claims speak about.                                            *)
(***************************************************************************)
\* classify(A, p) on a disk
Class(d, p) == zip_check_subpath(ZipOpen(d[ArchiveA], "r"), p)

\* the entries of the archive as a reader sees them, in directory order:
\* name, what reading gives, and the metadata
Entries(d) ==
    LET file == d[ArchiveA]
        zh == ZipOpen(file, "r")
    IN [i \in 1..Len(file.dir) |->
           [filename |-> file.dir[i].filename,
            read |-> ZipRead(zh, i),
            compress_type |-> file.dir[i].compress_type,
            date_time |-> file.dir[i].date_time]]

\* the positions of the entries of d with a name in the set / under a prefix
Named(d, name) == {i \in 1..Len(d[ArchiveA].dir) : d[ArchiveA].dir[i].filename = name}
Under(d, prefix) ==
    {i \in 1..Len(d[ArchiveA].dir) : StartsWith(d[ArchiveA].dir[i].filename, prefix)}

IsWrite(c) == c.op = "save" /\ c.arg.kind \in {"bytes", "stream"}

\* C2: for a subpath p that classifies as absent, save makes it classify as
\* file; a following delete of p makes it absent again and the archive then
\* holds the entries (name, content, metadata) it held before the save.
C2_SaveDeleteRoundTrip ==
    (Len(calls) >= 1 /\ IsWrite(calls[1])
        /\ Class(pre, LastSeg(calls[1].path)) = ZIP_SUBPATH_NONE) =>
        /\ calls[1].err = NoError
        /\ Len(calls) = 1 => Class(disk, LastSeg(calls[1].path)) = ZIP_SUBPATH_FILE
        /\ (Len(calls) = 2 /\ calls[2].path = calls[1].path) =>
              /\ calls[2].err = NoError
              /\ Class(disk, LastSeg(calls[1].path)) = ZIP_SUBPATH_NONE
              /\ Entries(disk) = Entries(pre)

\* C2 witness: 'a' was absent from an archive that holds 'ab' and 'b/'; it was
\* saved and deleted again.
C2_Witness ==
    /\ Len(calls) = 2
    /\ IsWrite(calls[1])
    /\ calls[1].path = <<ArchiveA, <<"a">>>>
    /\ calls[2].path = calls[1].path
    /\ Class(pre, <<"a">>) = ZIP_SUBPATH_NONE
    /\ NamesOf(pre[ArchiveA]) = {<<"a", "b">>, <<"b", SLASH>>}
    /\ calls[2].err = NoError

\* what delete of subpath dsub leaves of the archive pre, when it removes the
\* entries at the positions doomed
DeleteLeaves(doomed) ==
    IF doomed = {}
    THEN calls[1].err = "FSEntryNotFoundError" /\ disk = pre
    ELSE /\ calls[1].err = NoError
         /\ Entries(disk) = Without(Entries(pre), doomed, 1)
         /\ \A i \in 1..Len(Entries(disk)) : Entries(disk)[i].read.ok

\* C3 as claimed: delete of subpath d removes the entries named d and those
\* whose name starts with d + '/', and no others.
C3_Original ==
    (Len(calls) = 1 /\ calls[1].op = "delete") =>
        LET d == LastSeg(calls[1].path)
        IN DeleteLeaves(Named(pre, d) \cup Under(pre, d \o <<SLASH>>))

\* C3 as amended: for a non-empty subpath d, delete removes the entries named
\* d and those whose name starts with d + '/' (duplicates included) and no
\* others, the survivors keeping name, content and metadata; for the empty
\* subpath (the archive root) it removes every entry.
C3_DeleteFrame ==
    (Len(calls) = 1 /\ calls[1].op = "delete") =>
        LET d == LastSeg(calls[1].path)
        IN IF d = <<>>
           THEN DeleteLeaves(1..Len(pre[ArchiveA].dir))
           ELSE DeleteLeaves(Named(pre, d) \cup Under(pre, d \o <<SLASH>>))

\* C3 witness: 'a' was deleted from an archive holding 'a/', 'a/b' and 'ab';
\* only 'ab' is left.
C3_Witness ==
    /\ Len(calls) = 1
    /\ calls[1].op = "delete"
    /\ calls[1].path = <<ArchiveA, <<"a">>>>
    /\ NamesOf(pre[ArchiveA]) = {<<"a", SLASH>>, <<"a", SLASH, "b">>, <<"a", "b">>}
    /\ NamesOf(disk[ArchiveA]) = {<<"a", "b">>}


Exists(d, p) ==
    Class(d, p) \in {ZIP_SUBPATH_FILE, ZIP_SUBPATH_DIR, ZIP_SUBPATH_DIR_IMPLICIT}

\* t is s + '/' + something
StrictlyBelow(t, s) == StartsWith(t, s \o <<SLASH>>) /\ Len(t) > Len(s) + 1

IsMoveBelow(c) ==
    /\ c.op = "move"
    /\ Exists(pre, LastSeg(c.path))
    /\ StrictlyBelow(LastSeg(c.arg), LastSeg(c.path))

IsMoveAside(c) ==
    /\ c.op = "move"
    /\ Exists(pre, LastSeg(c.path))
    /\ ~StrictlyBelow(LastSeg(c.arg), LastSeg(c.path))
    /\ Class(pre, LastSeg(c.arg)) = ZIP_SUBPATH_NONE

\* the error that a move of the existing s to s/t raises
MoveBelowError(s, t) ==
    LET cur == Class(pre, t)
        inside == t \o <<SLASH>> \o Basename(s)
    IN IF cur = ZIP_SUBPATH_INVALID THEN "FSBadParentError"
       ELSE IF cur = ZIP_SUBPATH_FILE THEN "FSFileExistsError"
       ELSE IF cur \in DirStates /\ Exists(pre, inside) THEN "FSEntryExistsError"
       ELSE "FSMoveInsideError"

\* C5 as claimed: move of an existing s to a strict descendant s/t fails with
\* the move-into-self error and leaves the archive unchanged.
C5_Original ==
    (Len(calls) = 1 /\ IsMoveBelow(calls[1])) =>
        calls[1].err = "FSMoveInsideError" /\ disk = pre

\* C5 as amended: move of an existing s to a strict descendant s/t always
\* fails and leaves the archive unchanged; the error is bad-parent when s/t
\* lies below a file entry (as it does whenever s is a file), file-exists when
\* s/t is a file entry, entry-exists when s/t is a directory that holds the
\* basename of s, and move-into-self otherwise.  move of an existing s to an
\* absent path that is no descendant of s (a sibling such as 'ab' for 'a')
\* succeeds.
C5_MoveIntoSelf ==
    Len(calls) = 1 =>
        /\ IsMoveBelow(calls[1]) =>
              /\ calls[1].err = MoveBelowError(LastSeg(calls[1].path), LastSeg(calls[1].arg))
              /\ disk = pre
        /\ IsMoveAside(calls[1]) => calls[1].err = NoError

\* C5 witness: the directory 'a' holding 'a/b/' was moved to 'a/b', which
\* raised the move-into-self error.
C5_Witness ==
    /\ Len(calls) = 1
    /\ IsMoveBelow(calls[1])
    /\ calls[1].path = <<ArchiveA, <<"a">>>>
    /\ Class(pre, <<"a">>) = ZIP_SUBPATH_DIR
    /\ Class(pre, <<"a", SLASH, "b">>) = ZIP_SUBPATH_DIR
    /\ calls[1].err = "FSMoveInsideError"

\* C6: save onto a subpath that holds a file entry succeeds, leaves exactly
\* one entry of that name, which reads as the new content, and leaves every
\* other entry unchanged.  Violated when the archive holds the name twice.
C6_SaveReplaces ==
    (Len(calls) = 1 /\ IsWrite(calls[1])
        /\ Class(pre, LastSeg(calls[1].path)) = ZIP_SUBPATH_FILE) =>
        LET p == LastSeg(calls[1].path)
            zh == ZipOpen(disk[ArchiveA], "r")
        IN /\ calls[1].err = NoError
           /\ Cardinality(Named(disk, p)) = 1
           /\ ZipRead(zh, getinfo(zh, p)) = [ok |-> TRUE, data |-> NewData]
           /\ Without(Entries(disk), Named(disk, p), 1)
                 = Without(Entries(pre), Named(pre, p), 1)


\* C12: mkdir on the subpath p of an archive raises file-exists when p
\* classifies as file and bad-parent when p classifies as invalid; for an
\* explicit directory and for the root it returns without changing the
\* archive when exist_ok is true and raises dir-exists otherwise; for an
\* absent p it appends exactly one entry, named p + '/', of length zero,
\* with the directory flag, the directory type and the bits of the mode, and p
\* then classifies as explicit directory.
C12_Mkdir ==
    (Len(calls) = 1 /\ calls[1].op = "mkdir") =>
        LET p == LastSeg(calls[1].path)
            cur == Class(pre, p)
            n == Len(pre[ArchiveA].dir)
            made == disk[ArchiveA].dir[n + 1]
        IN /\ cur = ZIP_SUBPATH_FILE =>
                 calls[1].err = "FSFileExistsError" /\ disk = pre
           /\ cur = ZIP_SUBPATH_INVALID =>
                 calls[1].err = "FSBadParentError" /\ disk = pre
           /\ cur \in {ZIP_SUBPATH_DIR, ZIP_SUBPATH_DIR_ROOT} =>
                 /\ disk = pre
                 /\ calls[1].err = IF calls[1].arg.exist_ok THEN NoError
                                   ELSE "FSDirExistsError"
           /\ cur = ZIP_SUBPATH_NONE =>
                 /\ calls[1].err = NoError
                 /\ Len(disk[ArchiveA].dir) = n + 1
                 /\ SubSeq(Entries(disk), 1, n) = Entries(pre)
                 /\ made.filename = p \o <<SLASH>>
                 /\ made.file_size = 0
                 /\ Entries(disk)[n + 1].read = [ok |-> TRUE, data |-> <<>>]
                 /\ made.external_attr =
                       <<S_IFDIR + (calls[1].arg.mode % S_IFDIR), DosDirFlag>>
                 /\ Class(disk, p) = ZIP_SUBPATH_DIR

\* C12 witness: mkdir of 'a/b' with mode 0o755 on an archive that holds only
\* 'ab' appended 'a/b/' and no entry 'a/'.
C12_Witness ==
    /\ Len(calls) = 1
    /\ calls[1].op = "mkdir"
    /\ calls[1].path = <<ArchiveA, <<"a", SLASH, "b">>>>
    /\ calls[1].arg.mode = 493
    /\ Len(pre[ArchiveA].dir) = 1
    /\ pre[ArchiveA].dir[1].filename = <<"a", "b">>
    /\ Len(disk[ArchiveA].dir) = 2
    /\ disk[ArchiveA].dir[2].filename = <<"a", SLASH, "b", SLASH>>
    /\ calls[1].err = NoError

\* C29: mkdir on a subpath p that is only an implicit directory appends an
\* explicit entry p + '/' and returns normally whatever exist_ok is; p then
\* classifies as explicit directory and the entries present before are
\* unchanged.
C29_MkdirImplicit ==
    (/\ Len(calls) = 1
     /\ calls[1].op = "mkdir"
     /\ Class(pre, LastSeg(calls[1].path)) = ZIP_SUBPATH_DIR_IMPLICIT) =>
        LET p == LastSeg(calls[1].path)
            n == Len(pre[ArchiveA].dir)
        IN /\ calls[1].err = NoError
           /\ Len(disk[ArchiveA].dir) = n + 1
           /\ disk[ArchiveA].dir[n + 1].filename = p \o <<SLASH>>
           /\ SubSeq(Entries(disk), 1, n) = Entries(pre)
           /\ \A i \in 1..n : Entries(disk)[i].read.ok
           /\ Class(disk, p) = ZIP_SUBPATH_DIR

\* C29 witness: 'a' was implicit in an archive holding 'a/b' alone; mkdir with
\* exist_ok false returned and the archive now holds 'a/b' and 'a/'.
C29_Witness ==
    /\ Len(calls) = 1
    /\ calls[1].op = "mkdir"
    /\ calls[1].path = <<ArchiveA, <<"a">>>>
    /\ ~calls[1].arg.exist_ok
    /\ Len(pre[ArchiveA].dir) = 1
    /\ pre[ArchiveA].dir[1].filename = <<"a", SLASH, "b">>
    /\ Class(pre, <<"a">>) = ZIP_SUBPATH_DIR_IMPLICIT
    /\ calls[1].err = NoError
    /\ Len(disk[ArchiveA].dir) = 2
    /\ disk[ArchiveA].dir[2].filename = <<"a", SLASH>>

\* C30: save with a source that is neither bytes nor an object with a
\* callable read fails with the generic FSError, unless the subpath is
\* refused before as invalid or as a directory, and leaves the archive as it
\* was.  Violated when the subpath holds a file entry: the entry is removed
\* and the removal is written back before the error is raised.
C30_SaveRejects ==
    (Len(calls) = 1 /\ calls[1].op = "save" /\ calls[1].arg.kind = "other") =>
        LET cur == Class(pre, LastSeg(calls[1].path))
        IN /\ cur \in {ZIP_SUBPATH_NONE, ZIP_SUBPATH_FILE} => calls[1].err = "FSError"
           /\ Entries(disk) = Entries(pre)

\* the positions of the entries that delete of the subpath d selects
Selected(d0, d) ==
    IF d = <<>> THEN 1..Len(d0[ArchiveA].dir)
    ELSE Named(d0, d) \cup Under(d0, d \o <<SLASH>>)

IsDelete == Len(calls) = 1 /\ calls[1].op = "delete"

\* C21 as claimed: delete raises entry-not-found exactly when the subpath
\* classifies as absent, and then leaves the archive as it was; for every
\* other class it removes the selected entries.
C21_Original ==
    IsDelete =>
        LET d == LastSeg(calls[1].path)
        IN /\ calls[1].err = "FSEntryNotFoundError" <=> Class(pre, d) = ZIP_SUBPATH_NONE
           /\ Class(pre, d) = ZIP_SUBPATH_NONE => disk = pre
           /\ Class(pre, d) # ZIP_SUBPATH_NONE =>
                 /\ calls[1].err = NoError
                 /\ Entries(disk) = Without(Entries(pre), Selected(pre, d), 1)

\* C21 as amended: delete raises entry-not-found exactly when no entry is named
\* by the subpath or lies under subpath + '/' (for the root: when the archive
\* holds no entry), and then leaves the archive as it was; otherwise it removes
\* exactly the selected entries.  An absent subpath selects nothing; a subpath
\* without a trailing slash that classifies as file, explicit-dir or
\* implicit-dir selects something; the root and an invalid subpath may do
\* either.
C21_DeleteNotFound ==
    IsDelete =>
        LET d == LastSeg(calls[1].path)
            sel == Selected(pre, d)
        IN /\ calls[1].err = "FSEntryNotFoundError" <=> sel = {}
           /\ sel = {} => disk = pre
           /\ sel # {} =>
                 /\ calls[1].err = NoError
                 /\ Entries(disk) = Without(Entries(pre), sel, 1)
           /\ Class(pre, d) = ZIP_SUBPATH_NONE => sel = {}
           /\ (/\ d = RStrip(d)
               /\ Class(pre, d) \in {ZIP_SUBPATH_FILE, ZIP_SUBPATH_DIR,
                                      ZIP_SUBPATH_DIR_IMPLICIT}) => sel # {}

\* C21 witness: 'a/b' is invalid in an archive that holds the file 'a' alone;
\* its delete raised entry-not-found.
C21_Witness ==
    /\ IsDelete
    /\ calls[1].path = <<ArchiveA, <<"a", SLASH, "b">>>>
    /\ Len(pre[ArchiveA].dir) = 1
    /\ pre[ArchiveA].dir[1].filename = <<"a">>
    /\ Class(pre, <<"a", SLASH, "b">>) = ZIP_SUBPATH_INVALID
    /\ calls[1].err = "FSEntryNotFoundError"
    /\ disk = pre

(***************************************************************************)
(* SpecTree: a plain directory is copied into the archive; the copy is     *)
(* then extracted to a fresh place, or an entry of the archive is deleted. *)
(* The directory 'a' holds a choice of the files '1.txt' and '2.txt' and   *)
(* of the directory 's' with the file '3'; the archive is missing, empty   *)
(* or holds the directory entry 'p/'.  pre stays the initial disk.         *)
(***************************************************************************)
MaxTick == 11

SrcDir == <<"a">>
OutDir == <<"o">>
OneTxt == <<"1", ".", "t", "x", "t">>
TwoTxt == <<"2", ".", "t", "x", "t">>
SubDir == <<"s">>
Three == <<"3">>
InDir(dir, name) == dir \o <<SLASH>> \o name

Absent == -1

\* the function that holds the nodes of the pairs <<path, node>> in the set
NodesOf(pairs) == [p \in {pr[1] : pr \in pairs} |-> (CHOOSE pr \in pairs : pr[1] = p)[2]]

TreeDisk(m1, m2, sub, arch) ==
    NodesOf({<<SrcDir, DirNode(0)>>}
        \cup (IF m1 # Absent THEN {<<InDir(SrcDir, OneTxt), FileNode(DataOf(1, 2), m1)>>} ELSE {})
        \cup (IF m2 # Absent THEN {<<InDir(SrcDir, TwoTxt), FileNode(DataOf(2, 1), m2)>>} ELSE {})
        \cup (IF sub # "none" THEN {<<InDir(SrcDir, SubDir), DirNode(1)>>} ELSE {})
        \cup (IF sub = "file"
              THEN {<<InDir(InDir(SrcDir, SubDir), Three), FileNode(DataOf(3, 1), 2)>>} ELSE {})
        \cup (IF arch = "empty" THEN {<<ArchiveA, MkFile(<<>>)>>} ELSE {})
        \cup (IF arch = "other"
              THEN {<<ArchiveA, MkFile(<<Entry(<<"p", SLASH>>, <<>>)>>)>>} ELSE {}))

InitTree ==
    /\ \E m1 \in {Absent} \cup 0..MaxTick, m2 \in {Absent, 0, 3},
          sub \in {"none", "empty", "file"}, arch \in {"absent", "empty", "other"} :
          disk = TreeDisk(m1, m2, sub, arch)
    /\ pre = disk
    /\ calls = <<>>

\* the orders in which the elements of the set can be listed
ListingsOf(S) ==
    {f \in [1..Cardinality(S) -> S] : \A x \in S : \E i \in DOMAIN f : f[i] = x}

InSubpaths == {<<"a">>, <<"p">>, <<>>}
OutSubpaths == {<<"a">>, <<"p">>, <<"p", SLASH, "a">>}
DeleteSubpaths == {InDir(SrcDir, OneTxt), InDir(SrcDir, TwoTxt), <<"a">>, <<"p">>}

Called(op, path, arg, env, out) ==
    /\ disk' = out.disk
    /\ calls' = Append(calls, [op |-> op, path |-> path, arg |-> arg, env |-> env,
                               err |-> out.err, cpath |-> out.cpath])
    /\ UNCHANGED pre

CopyIn ==
    /\ calls = <<>>
    /\ \E s \in InSubpaths, order \in ListingsOf(Below(disk, SrcDir)) :
          LET env == [now |-> Now, order |-> order, later |-> FALSE]
          IN Called("copy", <<SrcDir>>, <<ArchiveA, s>>, env,
                    copy(disk, <<SrcDir>>, <<ArchiveA, s>>, env))

CopyOut ==
    /\ Len(calls) = 1
    /\ calls[1].err = NoError
    /\ \E s \in OutSubpaths, later \in BOOLEAN :
          LET env == [now |-> Now, order |-> <<>>, later |-> later]
          IN Called("copy", <<ArchiveA, s>>, <<OutDir>>, env,
                    copy(disk, <<ArchiveA, s>>, <<OutDir>>, env))

DeleteIn ==
    /\ Len(calls) = 1
    /\ calls[1].err = NoError
    /\ \E p \in DeleteSubpaths :
          Called("delete", <<ArchiveA, p>>, <<>>, <<>>, delete(disk, <<ArchiveA, p>>))

NextTree == CopyIn \/ CopyOut \/ DeleteIn

SpecTree == InitTree /\ [][NextTree]_vars

\* the paths of the nodes below top, relative to top
Relative(d, top) == {SubSeq(p, Len(top) + 2, Len(p)) : p \in Below(d, top)}
IsFileAt(d, path) == path \in DOMAIN d /\ ~isdir(d, path)

\* the directory was copied into the archive and the place where it landed
\* was extracted to OutDir
RoundTripDone ==
    /\ Len(calls) = 2
    /\ calls[1].err = NoError
    /\ calls[2].op = "copy"
    /\ calls[2].err = NoError
    /\ calls[2].path = calls[1].cpath

\* the local time of the second is shown once by the clock
Unambiguous(sec) ==
    Cardinality({other \in (sec - FoldLen)..(sec + FoldLen) :
                     LocalTime(other) = LocalTime(sec)}) = 1

\* the tree comes back with the same relative paths, the same kinds and the
\* same contents, each file with the time of its archive entry
RoundTripTree ==
    LET zh == ZipOpen(disk[ArchiveA], "r")
        s == LastSeg(calls[1].cpath)
    IN /\ Relative(disk, OutDir) = Relative(pre, SrcDir)
       /\ \A rel \in Relative(pre, SrcDir) :
             /\ isdir(disk, InDir(OutDir, rel)) = isdir(pre, InDir(SrcDir, rel))
             /\ IsFileAt(pre, InDir(SrcDir, rel)) =>
                   /\ disk[InDir(OutDir, rel)].data = pre[InDir(SrcDir, rel)].data
                   /\ disk[InDir(OutDir, rel)].mtime =
                         TicksPerSecond * zip_timestamp(
                             zh.infos[getinfo(zh, InDir(s, rel))].date_time,
                             calls[2].env.later)

\* how far the time of each extracted file lies before that of the original,
\* in ticks
Lags ==
    {pre[InDir(SrcDir, rel)].mtime - disk[InDir(OutDir, rel)].mtime :
        rel \in {r \in Relative(pre, SrcDir) : IsFileAt(pre, InDir(SrcDir, r))}}

NameList(d) == [i \in 1..Len(d[ArchiveA].dir) |-> d[ArchiveA].dir[i].filename]

\* the directory 'a' holds exactly '1.txt' and '2.txt', the archive is empty
TwoFilesGiven ==
    /\ Relative(pre, SrcDir) = {OneTxt, TwoTxt}
    /\ ArchiveA \in DOMAIN pre
    /\ pre[ArchiveA].dir = <<>>

MaxPieces == 3

\* the pieces that a text is made of, joined by '!/'
Pieces ==
    {<<>>, <<"A">>, <<"x">>, <<"y">>, <<DOT>>, DOTDOT, <<"A", SLASH, DOT, DOT>>,
     <<"x", SLASH, DOT, DOT>>}

RECURSIVE Concat(_)
Concat(pieces) ==
    IF Len(pieces) = 1 THEN pieces[1]
    ELSE pieces[1] \o <<BANG, SLASH>> \o Concat(Tail(pieces))

Texts == {Concat(pieces) : pieces \in UNION {[1..n -> Pieces] : n \in 1..MaxPieces}}

ConflictingDir == <<"A", BANG>>
ConflictingEntry == <<"x", BANG, SLASH, "y">>

ResolveDisk(xKind, hasY, conflictEntry, conflictOnDisk) ==
    NodesOf({<<ArchiveA, MkFile(
                  (IF xKind = "zip"
                   THEN <<Entry(<<"x">>, ZipBytes(IF hasY THEN <<<<"y">>>> ELSE <<>>))>>
                   ELSE IF xKind = "data" THEN <<Entry(<<"x">>, DataOf(1, 2))>>
                   ELSE <<>>)
                  \o (IF conflictEntry THEN <<Entry(ConflictingEntry, DataOf(2, 1))>>
                      ELSE <<>>))>>}
        \cup (IF conflictOnDisk THEN {<<ConflictingDir, DirNode(0)>>} ELSE {}))

InitResolve ==
    /\ \E xKind \in {"none", "zip", "data"}, hasY, conflictEntry, conflictOnDisk \in BOOLEAN :
          disk = ResolveDisk(xKind, hasY, conflictEntry, conflictOnDisk)
    /\ pre = disk
    /\ calls = <<>>

Resolved(t) ==
    /\ calls' = Append(calls, [op |-> "resolve", arg |-> t,
                               raised |-> resolve(disk, t).raised,
                               paths |-> resolve(disk, t).paths])
    /\ UNCHANGED <<disk, pre>>

Resolve ==
    /\ calls = <<>>
    /\ \E t \in Texts : Resolved(t)

ResolveRendering ==
    /\ Len(calls) = 1
    /\ calls[1].raised = ""
    /\ Resolved(CPathStr(calls[1].paths))

NextResolve == Resolve \/ ResolveRendering

SpecResolve == InitResolve /\ [][NextResolve]_vars

NestedText == <<"A", BANG, SLASH, "x", BANG, SLASH, "y">>

\* A holds a valid nested archive at the entry x
NestedGiven ==
    LET zh == ZipOpen(disk[ArchiveA], "r")
    IN /\ getinfo(zh, <<"x">>) # 0
       /\ IsZipBytes(ZipRead(zh, getinfo(zh, <<"x">>)).data)

\* the rendering of every result resolves to the same CPath
RenderingResolvesBack ==
    Len(calls) = 2 => calls[2].raised = "" /\ calls[2].paths = calls[1].paths

HasDotDot(t) == \E i \in 1..(Len(t) - 1) : t[i] = DOT /\ t[i + 1] = DOT

\* the rendering of a result resolves to the same CPath, or resolve raises
\* IsADirectoryError on it, which it does not for a text without '..'
RenderingResolvesBackOrRaises ==
    Len(calls) = 2 =>
        /\ calls[2].raised \in {"", "IsADirectoryError"}
        /\ calls[2].raised = "" => calls[2].paths = calls[1].paths
        /\ ~HasDotDot(calls[1].arg) => calls[2].raised = ""

RECURSIVE ResolvedHandle(_, _, _)
ResolvedHandle(d, paths, k) ==
    IF k = 1 THEN ZipOpen(d[paths[1]], "r")
    ELSE LET zh == ResolvedHandle(d, paths, k - 1)
         IN ZipOpen(ParseZip(ZipRead(zh, getinfo(zh, paths[k])).data), "r")

\* the text t holds a '!/' whose left part normalizes to the file P
HasBoundaryAt(t, P) ==
    \E j \in 1..Len(FindBangSlash(t, 1)) :
        normpath(SubSeq(t, 1, FindBangSlash(t, 1)[j] - 1)) = P

\* the text after the first '!/' of t
AfterFirst(t) == SubSeq(t, FindBangSlash(t, 1)[1] + 2, Len(t))

\* the text s holds a '!/' whose left part tidies to the entry name P
HasInnerBoundaryAt(s, P) ==
    \E j \in 1..Len(FindBangSlash(s, 1)) :
        resolve_tidy_subpath(SubSeq(s, 1, FindBangSlash(s, 1)[j] - 1), TRUE) = P

FSErrors ==
    {"FSError", "FSPermissionError", "FSEntryExistsError", "FSFileExistsError",
     "FSDirExistsError", "FSEntryNotFoundError", "FSFileNotFoundError",
     "FSDirNotFoundError", "FSNotADirectoryError", "FSIsADirectoryError",
     "FSBadParentError", "FSBadZipFileError", "FSMoveInsideError",
     "FSMoveAcrossZipError", "FSPartialError"}

\* what os.makedirs, the shutil functions and the calls on files and
\* archives raise
MakedirsRaises ==
    {"PermissionError", "FileNotFoundError", "NotADirectoryError", "FileExistsError",
     "OSError", "ValueError"}
ShutilRaises ==
    {"shutil.Error", "shutil.SameFileError", "PermissionError", "FileNotFoundError",
     "NotADirectoryError", "FileExistsError", "OSError"}
FileRaises ==
    {"PermissionError", "FileNotFoundError", "NotADirectoryError", "IsADirectoryError",
     "FileExistsError", "OSError", "BadZipFile", "KeyError", "ValueError", "RuntimeError"}

\* "except FSError: raise" and "except Exception as exc: raise _map_exc(...)"
OuterHandlers(cls) == IF cls \in FSErrors THEN cls ELSE map_exc(cls)

\* "except OSError as exc: raise FSBadParentError(...)" around os.makedirs
MakedirsHandler(cls) ==
    IF isinstance(cls, "OSError") THEN "FSBadParentError" ELSE OuterHandlers(cls)

\* "except shutil.Error as exc:" of move and copy
ShutilHandler(cls, listargs) ==
    IF isinstance(cls, "shutil.Error") /\ listargs THEN "FSPartialError"
    ELSE OuterHandlers(cls)

\* the handlers of each operation, by the place of the raise
mkdir_handlers(site, cls, listargs) ==
    IF site = "makedirs"
          /\ (isinstance(cls, "FileNotFoundError") \/ isinstance(cls, "NotADirectoryError"))
    THEN "FSBadParentError"
    ELSE OuterHandlers(cls)

mkzip_handlers(site, cls, listargs) ==
    IF site = "makedirs" THEN MakedirsHandler(cls) ELSE OuterHandlers(cls)

save_handlers(site, cls, listargs) ==
    IF site = "makedirs" THEN MakedirsHandler(cls) ELSE OuterHandlers(cls)

delete_handlers(site, cls, listargs) == OuterHandlers(cls)

move_handlers(site, cls, listargs) ==
    IF site = "makedirs" THEN MakedirsHandler(cls)
    ELSE IF site = "shutil.move" THEN ShutilHandler(cls, listargs)
    ELSE OuterHandlers(cls)

\* "except NotADirectoryError: shutil.copy2(...)" takes the exception of
\* shutil.copytree and goes on
copy_handlers(site, cls, listargs) ==
    IF site = "makedirs" THEN MakedirsHandler(cls)
    ELSE IF site = "shutil.copytree" /\ isinstance(cls, "NotADirectoryError") THEN ""
    ELSE IF site \in {"shutil.copytree", "zip_compress"} THEN ShutilHandler(cls, listargs)
    ELSE OuterHandlers(cls)

\* the places of each operation and what is raised there; "raise" is a
\* raise statement of the operation itself
Raisable(op, site) ==
    CASE site = "makedirs" -> MakedirsRaises
      [] site \in {"shutil.move", "shutil.copytree", "shutil.copy2", "zip_compress"} -> ShutilRaises
      [] site = "file" -> FileRaises
      [] site = "raise" ->
            CASE op = "mkdir" -> {"FSBadParentError", "FSFileExistsError", "FSDirExistsError"}
              [] op = "mkzip" -> {"FSIsADirectoryError", "FSBadParentError"}
              [] op = "save" -> {"FSIsADirectoryError", "FSBadParentError", "ValueError"}
              [] op = "delete" -> {"FSEntryNotFoundError", "RuntimeError"}
              [] op = "move" -> {"FSEntryNotFoundError", "FSBadParentError", "FSEntryExistsError",
                                 "FSFileExistsError", "FSMoveInsideError", "FSMoveAcrossZipError"}
              [] op = "copy" -> {"FSEntryNotFoundError", "FSBadParentError", "FSEntryExistsError",
                                 "FSFileExistsError"}

InitRaise ==
    /\ disk = [p \in {} |-> DirNode(0)]
    /\ pre = disk
    /\ calls = <<>>

Raised(op, site, cls, listargs, err) ==
    /\ calls' = <<[op |-> op, site |-> site, raw |-> cls, listargs |-> listargs, err |-> err]>>
    /\ UNCHANGED <<disk, pre>>

MkdirRaises ==
    /\ calls = <<>>
    /\ \E site \in {"makedirs", "file", "raise"}, listargs \in BOOLEAN :
           \E cls \in Raisable("mkdir", site) :
               Raised("mkdir", site, cls, listargs, mkdir_handlers(site, cls, listargs))

MkzipRaises ==
    /\ calls = <<>>
    /\ \E site \in {"makedirs", "file", "raise"}, listargs \in BOOLEAN :
           \E cls \in Raisable("mkzip", site) :
               Raised("mkzip", site, cls, listargs, mkzip_handlers(site, cls, listargs))

SaveRaises ==
    /\ calls = <<>>
    /\ \E site \in {"makedirs", "file", "raise"}, listargs \in BOOLEAN :
           \E cls \in Raisable("save", site) :
               Raised("save", site, cls, listargs, save_handlers(site, cls, listargs))

DeleteRaises ==
    /\ calls = <<>>
    /\ \E site \in {"file", "raise"}, listargs \in BOOLEAN :
           \E cls \in Raisable("delete", site) :
               Raised("delete", site, cls, listargs, delete_handlers(site, cls, listargs))

MoveRaises ==
    /\ calls = <<>>
    /\ \E site \in {"makedirs", "shutil.move", "file", "raise"}, listargs \in BOOLEAN :
           \E cls \in Raisable("move", site) :
               Raised("move", site, cls, listargs, move_handlers(site, cls, listargs))

CopyRaises ==
    /\ calls = <<>>
    /\ \E site \in {"makedirs", "shutil.copytree", "shutil.copy2", "zip_compress", "file", "raise"},
          listargs \in BOOLEAN :
           \E cls \in Raisable("copy", site) :
               Raised("copy", site, cls, listargs, copy_handlers(site, cls, listargs))

NextRaise ==
    MkdirRaises \/ MkzipRaises \/ SaveRaises \/ DeleteRaises \/ MoveRaises \/ CopyRaises

SpecRaise == InitRaise /\ [][NextRaise]_vars

\* the kind that the documentation of _map_exc gives to a raw class
KindOf(cls) ==
    CASE cls = "PermissionError" -> "FSPermissionError"
      [] cls \in {"FileNotFoundError", "NotADirectoryError"} -> "FSEntryNotFoundError"
      [] cls = "FileExistsError" -> "FSEntryExistsError"
      [] cls = "BadZipFile" -> "FSBadZipFileError"
      [] OTHER -> "FSError"

OSErrorClasses ==
    {"OSError", "PermissionError", "FileNotFoundError", "NotADirectoryError",
     "FileExistsError", "IsADirectoryError", "shutil.Error", "shutil.SameFileError"}

\* the raise is met by a handler inside the operation
TurnsBadParent(c) ==
    /\ c.site = "makedirs"
    /\ IF c.op = "mkdir" THEN c.raw \in {"FileNotFoundError", "NotADirectoryError"}
       ELSE c.raw \in OSErrorClasses

TurnsPartial(c) ==
    /\ c.site \in {"shutil.move", "shutil.copytree", "zip_compress"}
    /\ c.raw \in {"shutil.Error", "shutil.SameFileError"}
    /\ c.listargs

Swallowed(c) == c.op = "copy" /\ c.site = "shutil.copytree" /\ c.raw = "NotADirectoryError"

\* C10 as claimed: what escapes is an FSError; a raw exception is converted
\* by _map_exc, to a kind that depends on its class only.
C10_Original ==
    Len(calls) = 1 =>
        /\ calls[1].err \in FSErrors \cup {""}
        /\ (calls[1].raw \notin FSErrors /\ calls[1].err # "") =>
              calls[1].err = KindOf(calls[1].raw)

\* C10 as amended: every exception derived from Exception that escapes mkdir,
\* mkzip, save, delete, move or copy is an FSError; an FSError raised inside
\* escapes as it is; a raw exception of os.makedirs becomes the bad-parent
\* error (in mkdir for FileNotFoundError and NotADirectoryError, in the other
\* operations for every OSError), a shutil.Error whose first argument is a
\* list becomes the partial error in move and copy, and every other raw
\* exception is converted by _map_exc to a kind that depends on its class
\* only.
C10_EscapesAreFSErrors ==
    Len(calls) = 1 =>
        /\ calls[1].err \in FSErrors \cup {""}
        /\ calls[1].err = "" <=> Swallowed(calls[1])
        /\ calls[1].raw \in FSErrors => calls[1].err = calls[1].raw
        /\ (calls[1].raw \notin FSErrors /\ ~Swallowed(calls[1])) =>
              calls[1].err = IF TurnsBadParent(calls[1]) THEN "FSBadParentError"
                             ELSE IF TurnsPartial(calls[1]) THEN "FSPartialError"
                             ELSE KindOf(calls[1].raw)

\* C10 witness: a FileExistsError raised by shutil.move left move as the
\* entry-exists error.
C10_Witness ==
    /\ Len(calls) = 1
    /\ calls[1].op = "move"
    /\ calls[1].site = "shutil.move"
    /\ calls[1].raw = "FileExistsError"
    /\ calls[1].err = "FSEntryExistsError"


(***************************************************************************)
(* SpecMixed: one call of move or copy between plain paths and paths into  *)
(* an archive.  The disk holds the directory 'd', a choice of the files    *)
(* 'f' and 'd/f', and the archive A with at most MixedMaxEntries entries   *)
(* named in MixedNames; no archive is at 'M'.                              *)
(***************************************************************************)
MixedMaxEntries == 2

MixedNames == {<<"f">>, <<"d", SLASH>>, <<"d", SLASH, "f">>}

MissingArchive == <<"M">>

MixedDisk(names, hasF, hasDF) ==
    NodesOf({<<<<"d">>, DirNode(0)>>,
             <<ArchiveA, MkFile([i \in 1..Len(names) |->
                                    Entry(names[i], InitialData(names[i], i))])>>}
        \cup (IF hasF THEN {<<<<"f">>, FileNode(DataOf(1, 1), 0)>>} ELSE {})
        \cup (IF hasDF THEN {<<<<"d", SLASH, "f">>, FileNode(DataOf(2, 1), 0)>>} ELSE {}))

InitMixed ==
    /\ \E n \in 0..MixedMaxEntries : \E names \in [1..n -> MixedNames] :
          \E hasF, hasDF \in BOOLEAN : disk = MixedDisk(names, hasF, hasDF)
    /\ pre = disk
    /\ calls = <<>>

\* the paths that the calls are given
PlainPaths ==
    {<<<<"f">>>>, <<<<"d">>>>, <<<<"d", SLASH, "f">>>>, <<<<"g">>>>, <<ArchiveA>>,
     <<<<"A", SLASH, "g">>>>, <<<<"d", SLASH, "f", SLASH, "g">>>>}

MixedSubpaths ==
    {<<>>, <<"f">>, <<"d">>, <<"d", SLASH, "f">>, <<"g">>, <<"f", SLASH, "x">>}

MixedPaths ==
    PlainPaths \cup {<<file, sub>> : file \in {ArchiveA, MissingArchive, <<"d">>, <<"f">>},
                                     sub \in MixedSubpaths}

MoveMixed ==
    /\ calls = <<>>
    /\ \E csrc \in MixedPaths, cdst \in MixedPaths :
          Returned("move", csrc, cdst, move(disk, csrc, cdst, Now))

\* Two copies are not called: that of an archive file, as a plain file, into
\* an archive, and that of a plain directory to a place below itself, where
\* shutil.copytree descends into the copy it is making until the system
\* refuses the path
CopyMixed ==
    /\ calls = <<>>
    /\ \E csrc \in MixedPaths, cdst \in MixedPaths :
          /\ ~(Len(csrc) = 1 /\ Len(cdst) > 1 /\ csrc = <<ArchiveA>>)
          /\ ~(Len(csrc) = 1 /\ Len(cdst) = 1
                /\ StartsWith(FileOf(cdst), FileOf(csrc) \o <<SLASH>>))
          /\ LET env == [now |-> Now,
                         order |-> SetToSeq(Below(disk, FileOf(csrc))),
                         later |-> FALSE]
             IN Returned("copy", csrc, cdst, copy(disk, csrc, cdst, env))

NextMixed == MoveMixed \/ CopyMixed

SpecMixed == InitMixed /\ [][NextMixed]_vars

\* the call passed the checks that move and copy share
PassedChecks(c) == check_move_copy(pre, c.path, c.arg).err = NoError

\* a move from a plain path into an archive or from an archive to a plain path
IsMoveAcross(c) == c.op = "move" /\ (Len(c.path) = 1) # (Len(c.arg) = 1)

\* the file of the destination is the file of the source or lies below it
FileInsideSource(c) ==
    \/ FileOf(c.cpath) = FileOf(c.path)
    \/ StartsWith(FileOf(c.cpath), FileOf(c.path) \o <<SLASH>>)

\* C11 as claimed: a move between a plain path and a path into an archive that
\* passes the shared checks raises the move-across error and changes nothing.
C11_Original ==
    (Len(calls) = 1 /\ IsMoveAcross(calls[1]) /\ PassedChecks(calls[1])) =>
        calls[1].err = "FSMoveAcrossZipError" /\ disk = pre

\* C11 as amended: a move between a plain path and a path into an archive that
\* passes the shared checks is always rejected and changes nothing; the error
\* is the move-into-self error when the file of the effective destination is
\* the source's file or lies below it (the archive itself moved into one of
\* its subpaths, an entry moved to a plain path below its archive file), and
\* the move-across error otherwise.
C11_MoveAcross ==
    (Len(calls) = 1 /\ IsMoveAcross(calls[1]) /\ PassedChecks(calls[1])) =>
        /\ disk = pre
        /\ calls[1].err = IF FileInsideSource(calls[1]) THEN "FSMoveInsideError"
                          ELSE "FSMoveAcrossZipError"

\* C11 witness: the plain file 'f' was moved to A!/d, where the directory d of
\* the archive holds no 'f'; the move-across error names A!/d/f.
C11_Witness ==
    /\ Len(calls) = 1
    /\ calls[1].op = "move"
    /\ calls[1].path = <<<<"f">>>>
    /\ calls[1].arg = <<ArchiveA, <<"d">>>>
    /\ calls[1].cpath = <<ArchiveA, <<"d", SLASH, "f">>>>
    /\ calls[1].err = "FSMoveAcrossZipError"

\* FSEntryExistsError and its subclasses
EntryExistsErrors == {"FSEntryExistsError", "FSFileExistsError", "FSDirExistsError"}

\* the source of the call passes the checks: it exists
SourceFound(c) ==
    /\ Len(c.path) > 1 => OpenError(pre, FileOf(c.path)) = ""
    /\ CheckSource(pre, c.path).err = NoError

\* a file or directory exists at cpath
ExistsAt(d, cpath) ==
    IF Len(cpath) = 1 THEN FileOf(cpath) \in DOMAIN d
    ELSE /\ OpenError(d, FileOf(cpath)) = ""
         /\ Class(d, LastSeg(cpath))
               \in {ZIP_SUBPATH_FILE, ZIP_SUBPATH_DIR, ZIP_SUBPATH_DIR_IMPLICIT,
                    ZIP_SUBPATH_DIR_ROOT}

\* a directory exists at cpath: a directory on disk, or an explicit directory,
\* an implicit directory or the root of the archive
IsDirAt(d, cpath) ==
    IF Len(cpath) = 1 THEN FileOf(cpath) \in DOMAIN d /\ isdir(d, FileOf(cpath))
    ELSE /\ OpenError(d, FileOf(cpath)) = ""
         /\ Class(d, LastSeg(cpath))
               \in {ZIP_SUBPATH_DIR, ZIP_SUBPATH_DIR_IMPLICIT, ZIP_SUBPATH_DIR_ROOT}

\* dst/basename(src)
InsideDst(c) ==
    LET base == Basename(LastSeg(c.path))
    IN IF Len(c.arg) = 1 THEN <<FileOf(c.arg) \o <<SLASH>> \o base>>
       ELSE IF LastSeg(c.arg) = <<>> THEN <<FileOf(c.arg), base>>
       ELSE <<FileOf(c.arg), LastSeg(c.arg) \o <<SLASH>> \o base>>

\* the effective destination of the call
EffectiveDst(c) == IF IsDirAt(pre, c.arg) THEN InsideDst(c) ELSE c.arg

\* what the disk d holds at or under cpath: the nodes of the plain paths, or
\* the entries of the archive as a reader sees them
HeldAt(d, cpath) ==
    IF Len(cpath) = 1
    THEN {<<q, d[q]>> : q \in {q \in DOMAIN d :
                                 q = FileOf(cpath)
                                 \/ StartsWith(q, FileOf(cpath) \o <<SLASH>>)}}
    ELSE IF OpenError(d, FileOf(cpath)) # "" THEN {}
    ELSE {Entries(d)[i] : i \in {i \in 1..Len(d[ArchiveA].dir) :
             \/ d[ArchiveA].dir[i].filename = LastSeg(cpath)
             \/ StartsWith(d[ArchiveA].dir[i].filename, LastSeg(cpath) \o <<SLASH>>)}}

\* C13: for a move or copy whose source exists: a destination that exists
\* and is no directory raises entry-exists; a destination that is a directory
\* makes dst/basename(src) the effective destination, and raises entry-exists
\* if that exists; both errors leave everything unchanged; a call that
\* succeeds had nothing at its effective destination, and whatever was held at
\* or under it beforehand is still held.
C13_NeverReplaces ==
    (Len(calls) = 1 /\ calls[1].op \in {"move", "copy"} /\ SourceFound(calls[1])) =>
        LET c == calls[1]
        IN /\ (ExistsAt(pre, c.arg) /\ ~IsDirAt(pre, c.arg)) =>
                 c.err \in EntryExistsErrors /\ disk = pre
           /\ (IsDirAt(pre, c.arg) /\ ExistsAt(pre, InsideDst(c))) =>
                 /\ c.err \in EntryExistsErrors
                 /\ c.cpath = InsideDst(c)
                 /\ disk = pre
           /\ c.err = NoError =>
                 /\ c.cpath = EffectiveDst(c)
                 /\ ~ExistsAt(pre, EffectiveDst(c))
                 /\ HeldAt(pre, EffectiveDst(c)) \subseteq HeldAt(disk, EffectiveDst(c))
                 /\ ExistsAt(disk, EffectiveDst(c))

\* C13 witness: the entry 'f' of the archive was copied to the directory 'd'
\* of the archive, which holds 'd/f': entry-exists, with the path A!/d/f.
C13_Witness ==
    /\ Len(calls) = 1
    /\ calls[1].op = "copy"
    /\ calls[1].path = <<ArchiveA, <<"f">>>>
    /\ calls[1].arg = <<ArchiveA, <<"d">>>>
    /\ calls[1].cpath = <<ArchiveA, <<"d", SLASH, "f">>>>
    /\ calls[1].err = "FSEntryExistsError"
    /\ disk = pre

\* the archive file of cpath is not on the disk
ArchiveMissing(d, cpath) == Len(cpath) > 1 /\ ~lexists(d, FileOf(cpath))

\* the subpath of cpath classifies as cls in its archive
ClassIs(d, cpath, cls) ==
    /\ Len(cpath) > 1
    /\ OpenError(d, FileOf(cpath)) = ""
    /\ Class(d, LastSeg(cpath)) = cls

\* no file or directory is at the source of the call
SourceMissing(c) ==
    \/ Len(c.path) = 1 /\ ~lexists(pre, FileOf(c.path))
    \/ ClassIs(pre, c.path, ZIP_SUBPATH_NONE)
    \/ ClassIs(pre, c.path, ZIP_SUBPATH_INVALID)

\* the destination of the call is occupied
Occupied(c) ==
    \/ ExistsAt(pre, c.arg) /\ ~IsDirAt(pre, c.arg)
    \/ IsDirAt(pre, c.arg) /\ ExistsAt(pre, InsideDst(c))

\* C14 as claimed: a move or copy whose source does not exist raises
\* entry-not-found; with a source that exists, a destination below a file
\* entry or in a missing archive raises bad-parent and an occupied
\* destination raises entry-exists.
C14_Original ==
    (Len(calls) = 1 /\ calls[1].op \in {"move", "copy"}) =>
        LET c == calls[1]
        IN /\ SourceMissing(c) => c.err = "FSEntryNotFoundError"
           /\ (SourceFound(c) /\ ClassIs(pre, c.arg, ZIP_SUBPATH_INVALID)) =>
                 c.err = "FSBadParentError"
           /\ (SourceFound(c) /\ ArchiveMissing(pre, c.arg)) =>
                 c.err = "FSBadParentError"
           /\ (SourceFound(c) /\ Occupied(c)) => c.err \in EntryExistsErrors

\* C14 as amended: the source is checked first.  A missing plain source, a
\* source in a missing archive and a source subpath that classifies as absent
\* raise entry-not-found; a source subpath below a file entry raises
\* bad-parent, carrying the source.  With a source that exists, a destination
\* below a file entry raises bad-parent, a destination in a missing archive
\* raises entry-not-found, and an occupied destination raises entry-exists.
\* Each of these errors leaves everything unchanged.
C14_ErrorKinds ==
    (Len(calls) = 1 /\ calls[1].op \in {"move", "copy"}) =>
        LET c == calls[1]
            missing == \/ Len(c.path) = 1 /\ ~lexists(pre, FileOf(c.path))
                       \/ ArchiveMissing(pre, c.path)
                       \/ ClassIs(pre, c.path, ZIP_SUBPATH_NONE)
        IN /\ missing => c.err = "FSEntryNotFoundError" /\ disk = pre
           /\ ClassIs(pre, c.path, ZIP_SUBPATH_INVALID) =>
                 c.err = "FSBadParentError" /\ c.cpath = c.path /\ disk = pre
           /\ (SourceFound(c) /\ ClassIs(pre, c.arg, ZIP_SUBPATH_INVALID)) =>
                 c.err = "FSBadParentError" /\ c.cpath = c.arg /\ disk = pre
           /\ (SourceFound(c) /\ ArchiveMissing(pre, c.arg)) =>
                 c.err = "FSEntryNotFoundError" /\ disk = pre
           /\ (SourceFound(c) /\ Occupied(c)) =>
                 c.err \in EntryExistsErrors /\ disk = pre

\* C14 witness: the directory 'd' of the disk was copied into an archive
\* that is not on the disk: entry-not-found.
C14_Witness ==
    /\ Len(calls) = 1
    /\ calls[1].op = "copy"
    /\ calls[1].path = <<<<"d">>>>
    /\ calls[1].arg = <<MissingArchive, <<"g">>>>
    /\ calls[1].err = "FSEntryNotFoundError"
    /\ disk = pre

\* the failure of the call is due to its source: the source is missing, its
\* archive does not open, or its subpath is refused
SourceFails(c) ==
    \/ Len(c.path) = 1 /\ ~lexists(pre, FileOf(c.path))
    \/ Len(c.path) > 1 /\ ArchiveError(pre, c.path) # ""
    \/ Len(c.path) > 1 /\ ArchiveError(pre, c.path) = ""
          /\ CheckSource(pre, c.path).err # NoError

\* C23: an FSError raised by move or copy carries the source path when the
\* failure is due to the source, and the destination path (as given, or
\* dst/basename(src) inside a directory) otherwise.  Violated when the archive
\* of the source is missing or does not open: the error carries the
\* destination.
C23_ErrorPath ==
    (Len(calls) = 1 /\ calls[1].op \in {"move", "copy"} /\ calls[1].err # NoError) =>
        IF SourceFails(calls[1]) THEN calls[1].cpath = calls[1].path
        ELSE calls[1].cpath \in {calls[1].arg, InsideDst(calls[1])}

(***************************************************************************)
(* One run of the context manager with a body, kept as a record.           *)
(***************************************************************************)
\* the with-block, which is given the innermost handle: it does nothing,
\* writes the entry cpath[-1], raises, or writes and then raises
Bodies == {"pass", "write", "raise", "write_raise"}

RunBody(st, cpath, body, now) ==
    LET n == Len(st.zh)
        written == [st EXCEPT !.zh[n] =
                       ZipWritestr(@, ZipInfo(LastSeg(cpath), LocalTime(Sec(now))),
                                   NewData, "ZIP_STORED")]
        done == IF body \in {"write", "write_raise"} THEN written ELSE st
    IN IF body \in {"raise", "write_raise"} THEN [done EXCEPT !.raised = "RuntimeError"]
       ELSE done

\* a variant of the context manager that writes back also when the body
\* raised
OpenArchivePath_AlwaysBack(d, cpath, mode, body, fail, now) ==
    LET layers == IF mode = "r" THEN OpenLayersR(Opened0(d, cpath, mode), cpath, 1)
                  ELSE OpenLayersA(Opened0(d, cpath, mode), cpath, 1)
        ran == IF layers.raised # "" THEN layers ELSE RunBody(layers, cpath, body, now)
        back == IF layers.raised # "" \/ mode = "r" THEN ran
                ELSE WriteBack(ran, cpath, Last(cpath), -1, fail, now)
    IN Finally(back, cpath)

\* with open_archive_path(cpath, mode) as zh: body
OpenArchivePath(d, cpath, mode, body, fail, now) ==
    LET layers == IF mode = "r" THEN OpenLayersR(Opened0(d, cpath, mode), cpath, 1)
                  ELSE OpenLayersA(Opened0(d, cpath, mode), cpath, 1)
        ran == IF layers.raised # "" THEN layers ELSE RunBody(layers, cpath, body, now)
        back == IF ran.raised # "" \/ mode = "r" THEN ran
                ELSE WriteBack(ran, cpath, Last(cpath), -1, fail, now)
    IN Finally(back, cpath)

(***************************************************************************)
(* SpecNested: one run of open_archive_path with a body.  The archive A    *)
(* on disk holds at most NestedMaxEntries entries: the plain entry 'x',    *)
(* the archive 'in' (empty, or holding 'a'; stored or deflated) and the    *)
(* archive 'mid', which holds an archive 'in'.  Names may repeat.          *)
(***************************************************************************)
NestedMaxEntries == 2

NoFile == [fp |-> <<>>, dir |-> <<>>]

RECURSIVE WriteAll(_, _)
WriteAll(zh, entries) ==
    IF entries = <<>> THEN zh
    ELSE WriteAll(ZipWritestr(zh,
                              ZipInfo(Head(entries).filename,
                                      IF "date_time" \in DOMAIN Head(entries)
                                      THEN Head(entries).date_time ELSE 0),
                              Head(entries).data, Head(entries).compress_type),
                  Tail(entries))

\* the archive file that zipfile writes for the entries
MkArchive(entries) == ZipClose(WriteAll(ZipOpen(NoFile, "a"), entries), NoFile)

Member(name, data, compress_type) ==
    [filename |-> name, data |-> data, compress_type |-> compress_type]

NameIn == <<"i", "n">>
NameMid == <<"m", "i", "d">>
NameX == <<"x">>

InnerWithA == MkArchive(<<Member(<<"a">>, DataOf(1, 1), "ZIP_STORED")>>)

NestedMembers ==
    {Member(NameX, DataOf(2, 1), "ZIP_STORED"),
     Member(NameIn, ArchiveBytes(NoFile), "ZIP_STORED"),
     Member(NameIn, ArchiveBytes(InnerWithA), "ZIP_STORED"),
     Member(NameIn, ArchiveBytes(InnerWithA), "ZIP_DEFLATED"),
     Member(NameMid,
            ArchiveBytes(MkArchive(<<Member(NameIn, ArchiveBytes(InnerWithA),
                                            "ZIP_DEFLATED")>>)),
            "ZIP_STORED")}

InitNested ==
    /\ \E n \in 0..NestedMaxEntries : \E members \in [1..n -> NestedMembers] :
          disk = ArchiveA :> MkArchive(members)
    /\ pre = disk
    /\ calls = <<>>

\* the paths that open_archive_path is given
NestedPaths ==
    {<<ArchiveA>> \o chain \o <<p>> :
        chain \in {<<>>, <<NameIn>>, <<NameX>>, <<NameMid, NameIn>>, <<NameIn, <<"a">>>>},
        p \in {<<"a">>, <<"n">>}}

\* the level whose write-back step fails, -1 for none
Failures == {-1, 0, 1}

Ran(cpath, mode, body, fail, run) ==
    /\ disk' = run.disk
    /\ pre' = disk
    /\ calls' = <<[op |-> "open_archive_path", path |-> cpath,
                   arg |-> [mode |-> mode, body |-> body, fail |-> fail],
                   err |-> run.raised, opened |-> run.opened, closed |-> run.closed,
                   wrote |-> run.wrote]>>

OpenRead ==
    /\ calls = <<>>
    /\ \E cpath \in NestedPaths, body \in {"pass", "raise"} :
          Ran(cpath, "r", body, -1, OpenArchivePath(disk, cpath, "r", body, -1, Now))

OpenModify ==
    /\ calls = <<>>
    /\ \E cpath \in NestedPaths, body \in Bodies, fail \in Failures :
          Ran(cpath, "a", body, fail, OpenArchivePath(disk, cpath, "a", body, fail, Now))

NextNested == OpenRead \/ OpenModify

SpecNested == InitNested /\ [][NextNested]_vars

\* the run was a call of open_archive_path in the mode, on a nested path
IsNestedRun(mode) ==
    /\ Len(calls) = 1
    /\ calls[1].op = "open_archive_path"
    /\ calls[1].arg.mode = mode
    /\ Last(calls[1].path) >= 1

\* the entries of an archive file as a reader sees them, in directory order
EntriesOf(file) ==
    LET zh == ZipOpen(file, "r")
    IN [i \in 1..Len(file.dir) |->
           [filename |-> file.dir[i].filename,
            read |-> ZipRead(zh, i),
            compress_type |-> file.dir[i].compress_type,
            date_time |-> file.dir[i].date_time]]

\* the archive of level i that a reader finds on the disk d along cpath
RECURSIVE LevelFile(_, _, _)
LevelFile(d, cpath, i) ==
    IF i = 0 THEN d[FileOf(cpath)]
    ELSE LET zh == ZipOpen(LevelFile(d, cpath, i - 1), "r")
         IN FileInBytes(ZipRead(zh, getinfo(zh, cpath[i + 1])).data)

\* the positions of the entries of the file that have the name
NamedIn(file, name) == {k \in 1..Len(file.dir) : file.dir[k].filename = name}

\* the entries of the file that do not have the name
OthersIn(file, name) ==
    LET es == EntriesOf(file)
        keep == SetToSeq({k \in 1..Len(es) : es[k].filename # name})
    IN {es[k] : k \in {keep[j] : j \in 1..Len(keep)}}

\* h was closed, and before g was
ClosedBefore(closed, h, g) ==
    \E m, n \in 1..Len(closed) : m < n /\ closed[m] = h /\ closed[n] = g

\* C15: after a normal exit from mode 'a' on a nested path the levels were
\* written back from the innermost to the outermost, each nested archive was
\* closed before its buffer was written into its parent, a reader of the same
\* chain finds what the body wrote, and each parent holds exactly one entry
\* for its nested archive, stored, with the time of the call, the other
\* entries being as before.  Violated when a parent holds the name twice.
C15_WriteBack ==
    (IsNestedRun("a") /\ calls[1].err = NoError) =>
        LET cpath == calls[1].path
            last == Last(cpath)
        IN /\ calls[1].wrote = [j \in 1..last |-> last - j]
           /\ \A i \in 0..(last - 1) :
                 ClosedBefore(calls[1].closed, Handle("zh", i + 1), Handle("fw", i))
           /\ calls[1].arg.body = "write" =>
                 LET zh == ZipOpen(LevelFile(disk, cpath, last), "r")
                 IN /\ getinfo(zh, LastSeg(cpath)) # 0
                    /\ ZipRead(zh, getinfo(zh, LastSeg(cpath))) =
                          [ok |-> TRUE, data |-> NewData]
           /\ \A i \in 0..(last - 1) :
                 LET now == LevelFile(disk, cpath, i)
                     name == cpath[i + 2]
                 IN /\ Cardinality(NamedIn(now, name)) = 1
                    /\ \A k \in NamedIn(now, name) :
                          /\ now.dir[k].compress_type = "ZIP_STORED"
                          /\ now.dir[k].date_time = DosTime(LocalTime(Sec(Now)))
                    /\ OthersIn(now, name) = OthersIn(LevelFile(pre, cpath, i), name)

\* C16: when the context is left, in mode 'r' and in mode 'a', every object
\* that was opened has been closed, and of the archives and of the streams
\* and buffers under them a deeper one is closed before a shallower one.
\* Violated when a write-back step fails, and in mode 'a' when an entry of the
\* chain is missing.
C16_AllClosed ==
    (Len(calls) = 1 /\ calls[1].op = "open_archive_path") =>
        LET opened == {calls[1].opened[n] : n \in 1..Len(calls[1].opened)}
            closed == {calls[1].closed[n] : n \in 1..Len(calls[1].closed)}
            atexit == {h \in opened : h.kind \in {"zh", "fh"}}
        IN /\ opened \subseteq closed
           /\ \A h, g \in atexit :
                 h.level > g.level => ClosedBefore(calls[1].closed, h, g)

\* C17: after a normal exit from mode 'a' with a body that changes nothing, no
\* level was written back and the archive file is as it was.  Violated on
\* every nested path.
C17_OnlyIfModified ==
    (Len(calls) = 1 /\ calls[1].op = "open_archive_path" /\ calls[1].arg.mode = "a"
        /\ calls[1].arg.body = "pass" /\ calls[1].err = NoError) =>
        /\ calls[1].wrote = <<>>
        /\ disk = pre

\* C18: when the body of mode 'a' on a nested path raises, no level is
\* written back, the archive file is as it was, a reader of the chain finds
\* the innermost archive as it was, and every object that was opened has been
\* closed.
C18_BodyRaises ==
    (IsNestedRun("a") /\ calls[1].err = "RuntimeError") =>
        /\ calls[1].wrote = <<>>
        /\ disk = pre
        /\ LevelFile(disk, calls[1].path, Last(calls[1].path))
              = LevelFile(pre, calls[1].path, Last(calls[1].path))
        /\ {calls[1].opened[n] : n \in 1..Len(calls[1].opened)}
              \subseteq {calls[1].closed[n] : n \in 1..Len(calls[1].closed)}

\* C18 witness: the body wrote 'n' into the archive 'in' of A and raised; the
\* archive and its buffer were opened and closed.
C18_Witness ==
    /\ IsNestedRun("a")
    /\ calls[1].path = <<ArchiveA, NameIn, <<"n">>>>
    /\ calls[1].arg.body = "write_raise"
    /\ calls[1].err = "RuntimeError"
    /\ calls[1].closed = <<Handle("fr", 1), Handle("zh", 1), Handle("fh", 1),
                           Handle("zh", 0)>>
    /\ disk = pre

(***************************************************************************)
(* ZipStream.  The stream is a record of _buffer, _size and closed.  In    *)
(* SpecStream disk holds the stream, pre the stream before the last call   *)
(* and calls the calls made so far, each with its argument, what it        *)
(* returned and what it raised.                                            *)
(***************************************************************************)
\* ZipStream()
ZipStream_init == [buffer |-> <<>>, size |-> 0, closed |-> FALSE]

StreamReturn(s, ret, err) == [stream |-> s, ret |-> ret, err |-> err]

\* ZipStream.write(b)
ZipStream_write(s, b) ==
    IF s.closed THEN StreamReturn(s, <<>>, "RuntimeError")
    ELSE StreamReturn([s EXCEPT !.buffer = @ \o b], Len(b), NoError)

\* a variant of get that keeps what it returns in the buffer
ZipStream_get_Keeping(s) ==
    StreamReturn([s EXCEPT !.size = @ + Len(s.buffer)], s.buffer, NoError)

\* ZipStream.get()
ZipStream_get(s) ==
    StreamReturn([s EXCEPT !.buffer = <<>>, !.size = @ + Len(s.buffer)], s.buffer, NoError)

\* ZipStream.size()
ZipStream_size(s) == StreamReturn(s, s.size, NoError)

\* io.RawIOBase.close()
ZipStream_close(s) == StreamReturn([s EXCEPT !.closed = TRUE], <<>>, NoError)

StreamMaxCalls == 4

\* the arguments of write
Chunks == {<<>>, <<"a">>, <<"b", "c">>}

InitStream ==
    /\ disk = ZipStream_init
    /\ pre = disk
    /\ calls = <<>>

StreamCalled(op, arg, out) ==
    /\ disk' = out.stream
    /\ pre' = disk
    /\ calls' = Append(calls, [op |-> op, arg |-> arg, ret |-> out.ret, err |-> out.err])

StreamWrite ==
    /\ Len(calls) < StreamMaxCalls
    /\ \E b \in Chunks : StreamCalled("write", b, ZipStream_write(disk, b))

StreamGet ==
    /\ Len(calls) < StreamMaxCalls
    /\ StreamCalled("get", <<>>, ZipStream_get(disk))

StreamSize ==
    /\ Len(calls) < StreamMaxCalls
    /\ StreamCalled("size", <<>>, ZipStream_size(disk))

StreamClose ==
    /\ Len(calls) < StreamMaxCalls
    /\ StreamCalled("close", <<>>, ZipStream_close(disk))

NextStream == StreamWrite \/ StreamGet \/ StreamSize \/ StreamClose

SpecStream == InitStream /\ [][NextStream]_vars

\* the concatenation of what the first n calls wrote and were accepted with
RECURSIVE Written(_)
Written(n) ==
    IF n = 0 THEN <<>>
    ELSE Written(n - 1) \o (IF calls[n].op = "write" /\ calls[n].err = NoError
                            THEN calls[n].arg ELSE <<>>)

\* the concatenation of what get returned in the first n calls
RECURSIVE Drained(_)
Drained(n) ==
    IF n = 0 THEN <<>>
    ELSE Drained(n - 1) \o (IF calls[n].op = "get" THEN calls[n].ret ELSE <<>>)

\* C19: what get returned so far, followed by the buffer, is what the
\* accepted writes were given, in order; a get that follows a get returns
\* nothing; size() returns the length of all that get returned before it; a
\* write that is accepted returns the length of its argument; a write after
\* close raises and leaves the buffer and the size as they were.
C19_ZipStream ==
    /\ Drained(Len(calls)) \o disk.buffer = Written(Len(calls))
    /\ disk.size = Len(Drained(Len(calls)))
    /\ \A n \in 1..Len(calls) :
          /\ (n > 1 /\ calls[n].op = "get" /\ calls[n - 1].op = "get") =>
                calls[n].ret = <<>>
          /\ calls[n].op = "size" => calls[n].ret = Len(Drained(n))
          /\ calls[n].op = "write" =>
                IF \E m \in 1..(n - 1) : calls[m].op = "close"
                THEN calls[n].err = "RuntimeError"
                ELSE calls[n].err = NoError /\ calls[n].ret = Len(calls[n].arg)
    /\ (calls # <<>> /\ calls[Len(calls)].op = "write"
           /\ calls[Len(calls)].err # NoError) =>
          disk = pre

\* C19 witness: 'a' and 'bc' were written, get returned 'abc' and a second
\* get returned nothing.
C19_Witness ==
    /\ Len(calls) = 4
    /\ calls[1].op = "write" /\ calls[1].arg = <<"a">>
    /\ calls[2].op = "write" /\ calls[2].arg = <<"b", "c">>
    /\ calls[3].op = "get" /\ calls[3].ret = <<"a", "b", "c">>
    /\ calls[4].op = "get" /\ calls[4].ret = <<>>
    /\ disk.size = 3

(***************************************************************************)
(* Operations called with a text.  The functions begin with                *)
(* cpath = CPath(cpath), which makes of a text the path of one segment.    *)
(***************************************************************************)
\* a variant of CPath(text) that splits the text at its first '!/'
CPath_init_Split(pathlike) ==
    LET at == FindBangSlash(pathlike, 1)
    IN IF at = <<>> THEN <<pathlike>>
       ELSE <<SubSeq(pathlike, 1, at[1] - 1), SubSeq(pathlike, at[1] + 2, Len(pathlike))>>

\* CPath(pathlike) for a str
CPath_init(pathlike) == <<pathlike>>

\* delete(cpath) for a path of one segment: the file is removed, or the
\* directory with all that it holds
delete_plain(d, cpath, now) ==
    LET dst == FileOf(cpath)
        gone == {dst} \cup Below(d, dst)
    IN IF ~lexists(d, dst) THEN Outcome(d, "FSEntryNotFoundError", cpath)
       ELSE Outcome([p \in (DOMAIN d) \ gone |->
                        IF p = Dirname(dst) THEN [d[p] EXCEPT !.mtime = now] ELSE d[p]],
                    NoError, cpath)

\* delete(cpath)
DeleteAt(d, cpath, now) ==
    IF Len(cpath) = 1 THEN delete_plain(d, cpath, now) ELSE delete(d, cpath)

(***************************************************************************)
(* SpecText: one call of delete, move or copy with texts.  The disk holds  *)
(* the archive A with a choice of the entries 'x' and 'y', a choice of the *)
(* plain file 'f', and a choice of the directory 'A!' with the file 'x'.   *)
(***************************************************************************)
TextMaxPieces == 2

TextPieces == {<<"A">>, <<"x">>, <<"f">>}

TextArgs == {Concat(pieces) : pieces \in UNION {[1..n -> TextPieces] : n \in 1..TextMaxPieces}}

LiteralFile == <<"A", BANG, SLASH, "x">>

TextDisk(names, hasF, hasLiteral) ==
    NodesOf({<<ArchiveA, MkFile([i \in 1..Len(names) |->
                                    Entry(names[i], InitialData(names[i], i))])>>}
        \cup (IF hasF THEN {<<<<"f">>, FileNode(DataOf(1, 1), 0)>>} ELSE {})
        \cup (IF hasLiteral THEN {<<ConflictingDir, DirNode(0)>>,
                                  <<LiteralFile, FileNode(DataOf(2, 1), 0)>>}
              ELSE {}))

InitText ==
    /\ \E names \in {<<>>, <<<<"x">>>>, <<<<"y">>>>, <<<<"x">>, <<"y">>>>} :
          \E hasF, hasLiteral \in BOOLEAN : disk = TextDisk(names, hasF, hasLiteral)
    /\ pre = disk
    /\ calls = <<>>

DeleteText ==
    /\ calls = <<>>
    /\ \E t \in TextArgs :
          Returned("delete", t, <<>>, DeleteAt(disk, CPath_init(t), Now))

MoveText ==
    /\ calls = <<>>
    /\ \E src \in TextArgs, dst \in TextArgs :
          Returned("move", src, dst, move(disk, CPath_init(src), CPath_init(dst), Now))

CopyText ==
    /\ calls = <<>>
    /\ \E src \in TextArgs, dst \in TextArgs :
          LET env == [now |-> Now,
                      order |-> SetToSeq(Below(disk, src)),
                      later |-> FALSE]
          IN Returned("copy", src, dst, copy(disk, CPath_init(src), CPath_init(dst), env))

NextText == DeleteText \/ MoveText \/ CopyText

SpecText == InitText /\ [][NextText]_vars

\* what the operation of the call does when it is given the paths that
\* CPath.resolve makes of the texts
AsResolved(c) ==
    LET src == resolve(pre, c.path).paths
        dst == resolve(pre, c.arg).paths
        env == [now |-> Now, order |-> SetToSeq(Below(pre, FileOf(src))), later |-> FALSE]
    IN IF c.op = "delete" THEN DeleteAt(pre, src, Now)
       ELSE IF c.op = "move" THEN move(pre, src, dst, Now)
       ELSE copy(pre, src, dst, env)

\* the texts of the call
TextsOf(c) == IF c.op = "delete" THEN {c.path} ELSE {c.path, c.arg}

\* the text names an entry of an archive: resolve makes of it a path of more
\* than one segment
NamesEntry(d, t) == resolve(d, t).raised = "" /\ Len(resolve(d, t).paths) > 1

TransferMaxEntries == 2

ArchiveB == <<"B">>

\* a member with the time of its entry
Dated(name, data, compress_type, date_time) ==
    [filename |-> name, data |-> data, compress_type |-> compress_type,
     date_time |-> date_time]

\* the archive 'in': the directory 'a/' and the deflated file 'a/b'
InnerTree ==
    MkArchive(<<Dated(<<"a", SLASH>>, <<>>, "ZIP_STORED", 2),
                Dated(<<"a", SLASH, "b">>, DataOf(3, 2), "ZIP_DEFLATED", 6)>>)

TransferMembers ==
    {Dated(<<"a">>, DataOf(1, 1), "ZIP_DEFLATED", 4),
     Dated(<<"a", SLASH>>, <<>>, "ZIP_STORED", 2),
     Dated(<<"a", SLASH, "b">>, DataOf(2, 2), "ZIP_DEFLATED", 8),
     Dated(NameIn, ArchiveBytes(InnerTree), "ZIP_DEFLATED", 4),
     Dated(NameMid,
           ArchiveBytes(MkArchive(<<Dated(NameIn, ArchiveBytes(InnerTree),
                                          "ZIP_STORED", 2)>>)),
           "ZIP_STORED", 6)}

InitTransfer ==
    /\ \E n \in 0..TransferMaxEntries :
          \E members \in [1..n -> TransferMembers] :
             \E other \in {<<>>, <<Dated(<<"c", SLASH>>, <<>>, "ZIP_STORED", 0)>>,
                           <<Dated(<<"a">>, DataOf(4, 1), "ZIP_STORED", 2)>>} :
                disk = (ArchiveA :> MkArchive(members)) @@ (ArchiveB :> MkArchive(other))
    /\ pre = disk
    /\ calls = <<>>

\* the archives that the calls address: A, B, A!/in and A!/mid!/in
TransferChains == {<<ArchiveA>>, <<ArchiveB>>, <<ArchiveA, NameIn>>,
                   <<ArchiveA, NameMid, NameIn>>}

TransferSources == {chain \o <<p>> : chain \in TransferChains,
                                     p \in {<<"a">>, <<"a", SLASH, "b">>, NameIn}}

TransferTargets == {chain \o <<p>> : chain \in TransferChains,
                                     p \in {<<"a">>, <<"c">>, <<"g">>, <<>>}}

MoveZip ==
    /\ calls = <<>>
    /\ \E csrc \in TransferSources, cdst \in TransferTargets :
          Returned("move", csrc, cdst, move(disk, csrc, cdst, Now))

CopyZip ==
    /\ calls = <<>>
    /\ \E csrc \in TransferSources, cdst \in TransferTargets :
          Returned("copy", csrc, cdst,
                   copy(disk, csrc, cdst, [now |-> Now, order |-> <<>>, later |-> FALSE]))

NextTransfer == MoveZip \/ CopyZip

SpecTransfer == InitTransfer /\ [][NextTransfer]_vars

\* the entries of the innermost archive of cpath on the disk d
EntriesAt(d, cpath) == EntriesOf(LevelFile(d, cpath, Last(cpath)))

\* the name of the entry of the archive of the chain mine that holds the
\* archive of the chain other, <<"">> when it holds none
HolderOf(mine, other) ==
    IF Len(mine) < Len(other) /\ SubSeq(other, 1, Len(mine)) = mine
    THEN other[Len(mine) + 1] ELSE <<"">>

\* the entries without those of the name
Apart(es, name) == Without(es, {i \in 1..Len(es) : es[i].filename = name}, 1)

\* the positions of the entries named s or lying under s + '/'
SourceEntries(es, s) ==
    {i \in 1..Len(es) : es[i].filename = s \/ StartsWith(es[i].filename, s \o <<SLASH>>)}

\* the entries at the positions sel, renamed from the prefix s to the prefix t
Renamed(es, sel, s, t) ==
    LET picked == Without(es, (1..Len(es)) \ sel, 1)
    IN [j \in 1..Len(picked) |->
           [picked[j] EXCEPT !.filename =
               t \o SubSeq(@, Len(s) + 1, Len(@))]]

IsTransferDone ==
    /\ Len(calls) = 1
    /\ calls[1].op \in {"move", "copy"}
    /\ Len(calls[1].path) > 1
    /\ Len(calls[1].arg) > 1
    /\ calls[1].err = NoError

PartialMaxEntries == 1

FileKinds == {"absent", "file", "locked"}

\* the node of a file of the kind
NodeOfKind(kind, data) == IF kind = "locked" THEN LockedNode(data, 0) ELSE FileNode(data, 0)

PartialDisk(k1, k2, sub, k3, members) ==
    NodesOf({<<SrcDir, DirNode(0)>>, <<ArchiveA, MkArchive(members)>>}
        \cup (IF k1 # "absent"
              THEN {<<InDir(SrcDir, OneTxt), NodeOfKind(k1, DataOf(1, 2))>>} ELSE {})
        \cup (IF k2 # "absent"
              THEN {<<InDir(SrcDir, TwoTxt), NodeOfKind(k2, DataOf(2, 1))>>} ELSE {})
        \cup (IF sub THEN {<<InDir(SrcDir, SubDir), DirNode(0)>>} ELSE {})
        \cup (IF sub /\ k3 # "absent"
              THEN {<<InDir(InDir(SrcDir, SubDir), Three), NodeOfKind(k3, DataOf(3, 1))>>}
              ELSE {}))

PartialMembers ==
    {Dated(NameX, DataOf(4, 1), "ZIP_STORED", 2),
     Dated(NameIn, ArchiveBytes(InnerTree), "ZIP_DEFLATED", 4),
     Dated(NameMid,
           ArchiveBytes(MkArchive(<<Dated(NameIn, ArchiveBytes(InnerTree),
                                          "ZIP_STORED", 2)>>)),
           "ZIP_STORED", 6)}

InitPartial ==
    /\ \E k1, k2, k3 \in FileKinds, sub \in BOOLEAN :
          \E n \in 0..PartialMaxEntries : \E members \in [1..n -> PartialMembers] :
             /\ ~sub => k3 = "absent"
             /\ disk = PartialDisk(k1, k2, sub, k3, members)
    /\ pre = disk
    /\ calls = <<>>

PartialTargets ==
    {chain \o <<p>> : chain \in {<<ArchiveA>>, <<ArchiveA, NameIn>>,
                                 <<ArchiveA, NameMid, NameIn>>},
                      p \in {<<"g">>, <<"a">>, <<>>}}

CopyTree ==
    /\ calls = <<>>
    /\ \E cdst \in PartialTargets, order \in ListingsOf(Below(disk, SrcDir)) :
          LET env == [now |-> Now, order |-> order, later |-> FALSE]
          IN Returned("copy", <<SrcDir>>, [cdst |-> cdst, order |-> order],
                      copy(disk, <<SrcDir>>, cdst, env))

CopyFile ==
    /\ calls = <<>>
    /\ InDir(SrcDir, OneTxt) \in DOMAIN disk
    /\ \E cdst \in PartialTargets :
          LET env == [now |-> Now, order |-> <<>>, later |-> FALSE]
          IN Returned("copy", <<InDir(SrcDir, OneTxt)>>, [cdst |-> cdst, order |-> <<>>],
                      copy(disk, <<InDir(SrcDir, OneTxt)>>, cdst, env))

NextPartial == CopyTree \/ CopyFile

SpecPartial == InitPartial /\ [][NextPartial]_vars

\* the call copied the directory 'a' into an archive, the shared checks
\* passed, and some file below 'a' is locked
IsPartialCopy ==
    /\ Len(calls) = 1
    /\ calls[1].op = "copy"
    /\ calls[1].path = <<SrcDir>>
    /\ check_move_copy(pre, calls[1].path, calls[1].arg.cdst).err = NoError
    /\ \E q \in Below(pre, SrcDir) : Locked(pre[q])

\* the name of the entry of the plain path q of the tree src, copied to t
EntryNameOf(d, src, q, t) ==
    (IF t = <<>> THEN <<>> ELSE t \o <<SLASH>>)
        \o (IF q = src THEN <<>>
            ELSE SubSeq(q, Len(src) + 2, Len(q)) \o (IF isdir(d, q) THEN <<SLASH>> ELSE <<>>))

\* C24: when the copy of a plain directory into an archive fails for some
\* child, the call raises partial-failure with the destination path, and a
\* reader who opens the destination along the same chain of archives finds
\* the entries that were there before, unchanged, followed by one entry for
\* the directory (unless it went to the root), for every directory below it
\* and for every file that could be read, with the file's content; so every
\* layer was written back and nothing was rolled back.
C24_PartialKept ==
    IsPartialCopy =>
        LET cdst == calls[1].cpath
            t == LastSeg(cdst)
            before == EntriesAt(pre, cdst)
            after == EntriesAt(disk, cdst)
            added == SubSeq(after, Len(before) + 1, Len(after))
            kept == {q \in Below(pre, SrcDir) \cup {SrcDir} :
                        /\ ~Locked(pre[q])
                        /\ q = SrcDir => t # <<>>}
        IN /\ calls[1].err = "FSPartialError"
           /\ SubSeq(after, 1, Len(before)) = before
           /\ Len(added) = Cardinality(kept)
           /\ \A q \in kept :
                 \E i \in 1..Len(added) :
                    /\ added[i].filename = EntryNameOf(pre, SrcDir, q, t)
                    /\ added[i].read =
                          [ok |-> TRUE,
                           data |-> IF isdir(pre, q) THEN <<>> ELSE pre[q].data]

\* C24 witness: 'a' holds the readable '1.txt' and the locked '2.txt'; it was
\* copied to 'g' in the archive 'in' held in A: partial-failure, and 'in'
\* now ends with 'g/' and 'g/1.txt'.
C24_Witness ==
    /\ IsPartialCopy
    /\ calls[1].arg.cdst = <<ArchiveA, NameIn, <<"g">>>>
    /\ Below(pre, SrcDir) = {InDir(SrcDir, OneTxt), InDir(SrcDir, TwoTxt)}
    /\ ~Locked(pre[InDir(SrcDir, OneTxt)])
    /\ Locked(pre[InDir(SrcDir, TwoTxt)])
    /\ calls[1].err = "FSPartialError"
    /\ Len(EntriesAt(disk, calls[1].cpath)) = 4
    /\ EntriesAt(disk, calls[1].cpath)[3].filename = <<"g", SLASH>>
    /\ EntriesAt(disk, calls[1].cpath)[4].filename = InDir(<<"g">>, OneTxt)


(***************************************************************************)
(* scrapbook/importer.py: Importer.  A book is [meta, toc, data, made]:    *)
(* meta maps an item ID to its metadata, toc maps a parent ID to the list  *)
(* of its children, data is the set of files in the data directory, made   *)
(* counts the IDs that the book has generated.  The state of a run is      *)
(* [book, map_eid_to_info, map_id_to_new_id, target_index] with the        *)
(* options target_id, rebuild_folders and resolve_id_used.  An archive     *)
(* file is [export_info |-> [id, version, path], meta |-> [id, index]];    *)
(* index is <<>> or <<name>>, the one data file 'name.html'; the archives  *)
(* hold no favicon.                                                        *)
(***************************************************************************)
ROOT_ITEM_ID == "root"
SPECIAL_ITEM_ID == {"root", "hidden", "recycle"}
None == ""
NoIndex == -1

\* dict.setdefault(key, value) and d[key] = value
SetDefault(f, key, value) == IF key \in DOMAIN f THEN f ELSE (key :> value) @@ f
Put(f, key, value) == (key :> value) @@ f

\* the value of map_eid_to_info.setdefault(eid, {}): 'id', 'replaced' and
\* 'refs' as their readers see them when the key is absent
NewInfo == [id |-> None, replaced |-> FALSE, refs |-> {}]

\* book.get_unique_id(): an ID that the book does not hold
UniqueId(book) == "n" \o ToString(book.made + 1)

\* generate_imported_filename(id, meta, export_info) for target_filename '%ID%'
generate_imported_filename(id) == id

\* list.insert(index, x)
ListInsert(list, index, x) ==
    LET at == Min(index, Len(list))
    IN SubSeq(list, 1, at) \o <<x>> \o SubSeq(list, at + 1, Len(list))

\* Importer._insert_to_id(id, parent_id, allow_insert)
insert_to_id(st, id, parent_id, allow_insert) ==
    LET toc == SetDefault(st.book.toc, parent_id, <<>>)
    IN IF allow_insert /\ st.target_index # NoIndex
       THEN [st EXCEPT !.book.toc = Put(toc, parent_id,
                                        ListInsert(toc[parent_id], st.target_index, id)),
                       !.target_index = @ + 1]
       ELSE [st EXCEPT !.book.toc = Put(toc, parent_id, Append(toc[parent_id], id))]

\* the loop "for i in reversed(range(len(export_path) - 1))": the position
\* (from 1) of the last ancestor that the book holds, 0 with the root when
\* there is none
RECURSIVE KnownAncestor(_, _, _)
KnownAncestor(book, export_path, i) ==
    IF i = 0 THEN [i |-> 0, parent_id |-> ROOT_ITEM_ID]
    ELSE IF export_path[i].id \in DOMAIN book.meta \/ export_path[i].id \in SPECIAL_ITEM_ID
    THEN [i |-> i, parent_id |-> export_path[i].id]
    ELSE KnownAncestor(book, export_path, i - 1)

\* book.add_item({'title': ..., 'type': 'folder'}, parent_id): the book with
\* the new folder at the end of the parent's list
add_item(book, parent_id) ==
    LET new_id == UniqueId(book)
        toc == SetDefault(book.toc, parent_id, <<>>)
    IN [book EXCEPT !.meta = Put(@, new_id, [index |-> <<>>, type |-> "folder"]),
                    !.toc = Put(toc, parent_id, Append(toc[parent_id], new_id)),
                    !.made = @ + 1]

\* the loop "for j in range(i + 1, len(export_path))": a folder is generated
\* for every element of the path from the j-th on
RECURSIVE GenerateFolders(_, _, _, _)
GenerateFolders(st, export_path, j, parent_id) ==
    IF j > Len(export_path) THEN [st |-> st, parent_id |-> parent_id]
    ELSE LET new_id == UniqueId(st.book)
         IN GenerateFolders(
                [st EXCEPT !.book = add_item(st.book, parent_id),
                           !.map_id_to_new_id = Put(@, export_path[j].id, new_id)],
                export_path, j + 1, new_id)

\* Importer._insert_to_toc(id, export_info): parent_id is the parent the
\* item went under, None when it was skipped; export_path is not bound
\* without rebuild_folders
insert_to_toc(st, id, export_info) ==
    LET eid == export_info.id
        st1 == [st EXCEPT !.map_eid_to_info = SetDefault(@, eid, NewInfo)]
        export_path == export_info.path
        ref_key == IF st.rebuild_folders THEN export_path[Len(export_path)].id
                   ELSE st.target_id
        parent_id == IF st.rebuild_folders /\ ref_key \in DOMAIN st.map_id_to_new_id
                     THEN st.map_id_to_new_id[ref_key] ELSE ref_key
        st2 == [st1 EXCEPT !.map_eid_to_info[eid].refs = @ \cup {ref_key}]
        found == KnownAncestor(st2.book, export_path, Len(export_path) - 1)
        made == GenerateFolders(st2, export_path, found.i + 1, found.parent_id)
    IN IF st1.map_eid_to_info[eid].replaced
       THEN [st |-> st1, raised |-> "", parent_id |-> None]
       ELSE IF st.rebuild_folders /\ export_path = <<>>
       THEN [st |-> st1, raised |-> "IndexError", parent_id |-> None]
       ELSE IF ref_key \in st1.map_eid_to_info[eid].refs
       THEN [st |-> st1, raised |-> "", parent_id |-> None]
       ELSE IF parent_id \in DOMAIN st2.book.meta \/ parent_id \in SPECIAL_ITEM_ID
       THEN [st |-> insert_to_id(st2, id, parent_id, TRUE), raised |-> "",
             parent_id |-> parent_id]
       ELSE IF ~st.rebuild_folders
       THEN [st |-> st2, raised |-> "UnboundLocalError", parent_id |-> None]
       ELSE [st |-> insert_to_id(made.st, id, made.parent_id, FALSE), raised |-> "",
             parent_id |-> made.parent_id]

\* the part "import data files" and "self.book.meta[id] = meta"; dst is the
\* file that the data goes to
ImportData(st, id, meta, dst) ==
    IF meta.index # <<>> /\ dst \in st.book.data
    THEN [st |-> st, raised |-> "RuntimeError", id |-> None]
    ELSE [st |-> [st EXCEPT !.book.data = IF meta.index # <<>> THEN @ \cup {dst} ELSE @,
                            !.book.meta = Put(@, id, meta)],
          raised |-> "", id |-> id]

\* Importer._import_meta_and_data(id, meta, zh, export_info): id is the ID of
\* the imported item
import_meta_and_data(st, id, meta0, export_info) ==
    LET index == meta0.index
        filename == generate_imported_filename(id)
        meta == IF index # <<>> THEN [meta0 EXCEPT !.index = <<filename>>] ELSE meta0
        index_old == st.book.meta[id].index
        new_id == UniqueId(st.book)
    IN IF id \notin DOMAIN st.book.meta THEN ImportData(st, id, meta, filename)
       ELSE IF st.resolve_id_used = "skip"
       THEN [st |-> st, raised |-> "RuntimeError", id |-> None]
       ELSE IF st.resolve_id_used = "replace"
       THEN IF (index = <<>>) # (index_old = <<>>)
            THEN [st |-> st, raised |-> "RuntimeError", id |-> None]
            ELSE ImportData(
                     [st EXCEPT !.book.data = IF index # <<>> THEN @ \ {index_old[1]} ELSE @,
                                !.map_eid_to_info[export_info.id].replaced = TRUE],
                     id,
                     IF index # <<>> THEN [meta EXCEPT !.index = index_old] ELSE meta,
                     IF index # <<>> THEN index_old[1] ELSE filename)
       ELSE IF st.resolve_id_used = "new"
       THEN ImportData(
                [st EXCEPT !.book.made = @ + 1,
                           !.map_id_to_new_id = Put(@, id, new_id)],
                new_id,
                IF index # <<>>
                THEN [meta EXCEPT !.index = <<generate_imported_filename(new_id)>>]
                ELSE meta,
                generate_imported_filename(new_id))
       ELSE [st |-> st, raised |-> "RuntimeError", id |-> None]

\* Importer._import_file(file): stored says whether the metadata and data of
\* the file were imported
import_file(st, file) ==
    LET export_info == file.export_info
        id == file.meta.id
        meta == [index |-> file.meta.index, type |-> ""]
        st1 == [st EXCEPT !.map_eid_to_info = SetDefault(@, export_info.id, NewInfo)]
        imported_id == st1.map_eid_to_info[export_info.id].id
        imported == import_meta_and_data(st1, id, meta, export_info)
        used == IF imported_id # None
                THEN [st |-> st1, raised |-> "", id |-> imported_id]
                ELSE imported
        inserted == insert_to_toc(used.st, used.id, export_info)
    IN IF export_info.version # 1
       THEN [st |-> st, raised |-> "RuntimeError", id |-> None, stored |-> FALSE,
             parent_id |-> None]
       ELSE IF id \in SPECIAL_ITEM_ID
       THEN [st |-> st, raised |-> "RuntimeError", id |-> None, stored |-> FALSE,
             parent_id |-> None]
       ELSE IF used.raised # ""
       THEN [st |-> used.st, raised |-> used.raised, id |-> None, stored |-> FALSE,
             parent_id |-> None]
       ELSE [st |-> inserted.st, raised |-> inserted.raised, id |-> used.id,
             stored |-> imported_id = None, parent_id |-> inserted.parent_id]

\* the body of "for src in srcs" in Importer.run: a file that was imported
\* without exception sets the 'id' of its export id unless it is set
RunFile(st, file) ==
    LET done == import_file(st, file)
        eid == file.export_info.id
        info == SetDefault(done.st.map_eid_to_info, eid, NewInfo)
    IN IF done.raised # "" THEN done
       ELSE [done EXCEPT !.st.map_eid_to_info =
                Put(info, eid, IF info[eid].id = None
                               THEN [info[eid] EXCEPT !.id = done.id] ELSE info[eid])]

(***************************************************************************)
(* SpecImport: one run of an Importer over at most ImporterMaxFiles        *)
(* archive files.  disk is the book, pre is the Importer with the copy of  *)
(* the book that run takes first, calls lists the files imported so far    *)
(* and the saving of the changed files.                                    *)
(***************************************************************************)
ImporterMaxFiles == 2

ExportIds == {"e1", "e2"}
ItemIds == {"i1", "i2"}
ExportPaths ==
    {<<>>, <<[id |-> "root"]>>, <<[id |-> "root"], [id |-> "F"]>>,
     <<[id |-> "root"], [id |-> "G"]>>}

\* the item i1 has a data file, the item i2 has none
ImportFiles ==
    {[export_info |-> [id |-> eid, version |-> 1, path |-> path],
      meta |-> [id |-> id, index |-> IF id = "i1" THEN <<"i1">> ELSE <<>>]] :
        eid \in ExportIds, id \in ItemIds, path \in ExportPaths}

\* the book holds the folder F under the root, and may hold the item i1
ImportBook(has_i1) ==
    [meta |-> IF has_i1
              THEN ("F" :> [index |-> <<>>, type |-> "folder"])
                       @@ ("i1" :> [index |-> <<"i1">>, type |-> ""])
              ELSE ("F" :> [index |-> <<>>, type |-> "folder"]),
     toc |-> "root" :> (IF has_i1 THEN <<"F", "i1">> ELSE <<"F">>),
     data |-> IF has_i1 THEN {"i1"} ELSE {},
     made |-> 0]

InitImport ==
    /\ \E has_i1, rebuild_folders \in BOOLEAN,
          resolve_id_used \in {"skip", "replace", "new"},
          target_id \in {ROOT_ITEM_ID, "missing"},
          target_index \in {NoIndex, 0} :
          /\ disk = ImportBook(has_i1)
          /\ pre = [book_meta_orig |-> disk.meta,
                    book_toc_orig |-> disk.toc,
                    map_eid_to_info |-> [e \in {} |-> NewInfo],
                    map_id_to_new_id |-> [i \in {} |-> None],
                    target_id |-> target_id,
                    target_index |-> target_index,
                    rebuild_folders |-> rebuild_folders,
                    resolve_id_used |-> resolve_id_used]
    /\ calls = <<>>

Running == IF calls = <<>> THEN TRUE ELSE calls[Len(calls)].op # "save"

ImportFile ==
    /\ Running
    /\ Len(calls) < ImporterMaxFiles
    /\ \E file \in ImportFiles :
          LET st == [book |-> disk,
                     map_eid_to_info |-> pre.map_eid_to_info,
                     map_id_to_new_id |-> pre.map_id_to_new_id,
                     target_id |-> pre.target_id,
                     target_index |-> pre.target_index,
                     rebuild_folders |-> pre.rebuild_folders,
                     resolve_id_used |-> pre.resolve_id_used]
              done == RunFile(st, file)
          IN /\ disk' = done.st.book
             /\ pre' = [pre EXCEPT !.map_eid_to_info = done.st.map_eid_to_info,
                                   !.map_id_to_new_id = done.st.map_id_to_new_id,
                                   !.target_index = done.st.target_index]
             /\ calls' = Append(calls, [op |-> "_import_file", file |-> file,
                                        raised |-> done.raised, id |-> done.id,
                                        stored |-> done.stored,
                                        parent_id |-> done.parent_id])

\* the end of run: the changed files are saved
SaveFiles ==
    /\ Running
    /\ calls' = Append(calls, [op |-> "save",
                               meta |-> disk.meta # pre.book_meta_orig,
                               toc |-> disk.toc # pre.book_toc_orig])
    /\ UNCHANGED <<disk, pre>>

NextImport == ImportFile \/ SaveFiles

SpecImport == InitImport /\ [][NextImport]_vars


\* the files imported so far
ImportCalls == {c \in 1..Len(calls) : calls[c].op = "_import_file"}

\* how often x occurs in the list
Occurrences(list, x) == Cardinality({i \in 1..Len(list) : list[i] = x})

\* the children of the parent in a TOC
TocList(toc, parent_id) == IF parent_id \in DOMAIN toc THEN toc[parent_id] ELSE <<>>

\* the metadata and data of one export id were imported at most once
StoredOnce ==
    \A e \in ExportIds :
        Cardinality({c \in ImportCalls : calls[c].file.export_info.id = e /\ calls[c].stored}) <= 1

\* a file imported after a successful import of the same export id takes the
\* ID of that import
ReusesFirstId ==
    \A c1, c2 \in ImportCalls :
        (/\ c1 < c2
         /\ calls[c1].file.export_info.id = calls[c2].file.export_info.id
         /\ calls[c1].raised = ""
         /\ calls[c2].raised = "") => calls[c2].id = calls[c1].id

\* no list of the TOC has gained an imported item more than once
InsertedOnce ==
    \A parent_id \in DOMAIN disk.toc :
        \A c \in ImportCalls :
            calls[c].id # None =>
                Occurrences(disk.toc[parent_id], calls[c].id)
                    <= Occurrences(TocList(pre.book_toc_orig, parent_id), calls[c].id) + 1

\* C28: during one run over any sequence of archive files, the metadata and
\* data of one export id are imported at most once, a later file of the same
\* export id takes the ID of the first successful import, and no list of the
\* TOC gains the same imported item twice.
C28_ImportOnce == StoredOnce /\ ReusesFirstId /\ InsertedOnce

=============================================================================
